---- MODULE Spec2Model ----
(***************************************************************************)
(* Model of the ORS <-> Legacy streaming proxy (rust-ors-proxy).           *)
(*                                                                         *)
(* The transcoder (src/src/transcoder.rs) is modelled field by field; one  *)
(* Process step is one call of Transcoder::process from the loop of        *)
(* make_stream (src/src/main.rs), followed by the push of the returned     *)
(* events onto accumulated_events.                                         *)
(*                                                                         *)
(* Encoding of Rust values:                                                *)
(*   Option<T>      None is <<>>, Some(x) is <<x>>                         *)
(*   Vec<T>         a sequence                                             *)
(*   String         a TLA+ string; text is drawn from Contents             *)
(*   generated ids  format!("msg_{}", uuid) is <<"msg", n>>, n the n-th    *)
(*                  token drawn from Uuid::new_v4 (tokens never repeat);   *)
(*                  the empty string in an id position is <<>>             *)
(*   serde_json     objects are records with the object's keys             *)
(***************************************************************************)
EXTENDS Integers, Sequences, FiniteSets, TLC

VARIABLES
    transcoder,          \* the Transcoder struct of the request
    uuid,                \* number of tokens drawn from Uuid::new_v4 so far
    accumulated_events,  \* make_stream's accumulated_events: every event emitted
    chunks,              \* the Legacy chunks handed to process so far, in order
    codec,               \* the SseCodec struct of the request
    byte_chunks,         \* the byte buffers handed to decode so far, in order
    decoded_lines,       \* the lines returned by decode so far, in order
    upstream_lines,      \* the lines the loop of make_stream has handled, in order
    conversations,       \* the ids of the rows of table conversations
    items,               \* the rows of table items, in insertion (rowid) order
    saves,               \* per task: the save_interaction call it runs, if any
    save_log,            \* the tasks that called save_interaction, in call order
    full_input,          \* create_response's full_input: history, then the input
    legacy_messages,     \* create_response's legacy_messages: the translation
    requests,            \* per task: the request it serves, if any
    streams              \* per task: the locals of its make_stream, if started

request_vars == <<transcoder, uuid, accumulated_events, chunks>>
codec_vars == <<codec, byte_chunks, decoded_lines>>

store_vars == <<conversations, items, saves, save_log>>
stream_vars == <<request_vars, codec_vars, upstream_lines>>

translate_vars == <<full_input, legacy_messages>>

handler_vars == <<requests>>

concurrent_vars == <<streams>>

vars == <<stream_vars, store_vars, translate_vars, handler_vars, concurrent_vars>>

(***************************************************************************)
(* Bounds                                                                  *)
(***************************************************************************)
MaxChunks == 3
MaxTextChunks == 4
MaxToolChunks == 5
MaxFinishChunks == 2
MaxDecodes == 3
MaxLines == 4
MaxItems == 2
MaxReads == 2

(***************************************************************************)
(* Option and string helpers                                               *)
(***************************************************************************)
None == <<>>
Some(x) == <<x>>
IsSome(o) == o # <<>>
Unwrap(o) == o[1]
UnwrapOr(o, d) == IF o = <<>> THEN d ELSE o[1]

EmptyId == <<>>

(***************************************************************************)
(* Legacy chunks (types.rs LegacyChunk / LegacyChoice / LegacyDelta)       *)
(***************************************************************************)
Contents == {"", "a", "b"}

ToolCallOpen ==
    [id |-> Some("call_123"),
     function |-> Some([name |-> Some("get_weather"), arguments |-> Some("")])]
ToolCallArgs ==
    [id |-> None,
     function |-> Some([name |-> None, arguments |-> Some("x")])]
ToolCallBare ==
    [id |-> Some("call_456"), function |-> None]

\* the tool_calls lists of a delta: empty, a call that opens an item, an
\* arguments fragment, and both in one chunk
ToolCallLists ==
    {<<>>, <<ToolCallOpen>>, <<ToolCallArgs>>, <<ToolCallOpen, ToolCallArgs>>}

LegacyDelta(content, tool_calls) ==
    [content |-> content, tool_calls |-> tool_calls]

LegacyChoice(delta, finish_reason) ==
    [delta |-> delta, finish_reason |-> finish_reason]

LegacyChunk(choices) == [choices |-> choices]

OptContents == {None} \cup {Some(c) : c \in {"", "a"}}
OptToolCalls == {None} \cup {Some(l) : l \in ToolCallLists}
OptFinish == {None, Some("stop")}

\* every combination of content, tool-call list and finish reason
Choices ==
    {LegacyChoice(LegacyDelta(c, t), f) :
        c \in OptContents, t \in OptToolCalls, f \in OptFinish}

\* the same shapes with other data: a tool call without a function object,
\* and the finish reason length
DataChoices ==
    {LegacyChoice(LegacyDelta(None, Some(<<ToolCallBare>>)), f) : f \in OptFinish}
    \cup {LegacyChoice(LegacyDelta(c, None), Some("length")) : c \in {None, Some("a")}}

\* a second choice, which process must ignore
ExtraChoice == LegacyChoice(LegacyDelta(Some("b"), None), Some("stop"))

Chunks ==
    {LegacyChunk(<<>>)}
    \cup {LegacyChunk(<<c>>) : c \in Choices \cup DataChoices}
    \cup {LegacyChunk(<<LegacyChoice(LegacyDelta(c, None), None), ExtraChoice>>) :
            c \in {None, Some("a")}}

\* the chunks of a text-only stream (make_chunk of the tests, plus an empty
\* tool_calls list)
TextChunks ==
    {LegacyChunk(<<LegacyChoice(LegacyDelta(c, t), f)>>) :
        c \in {None} \cup {Some(s) : s \in Contents},
        t \in {None, Some(<<>>)},
        f \in {None, Some("stop")}}

ToolCallOther ==
    [id |-> Some("call_789"),
     function |-> Some([name |-> Some("lookup"), arguments |-> Some("")])]

\* an arguments fragment carrying the string a
ArgsFragment(a) ==
    [id |-> None, function |-> Some([name |-> None, arguments |-> Some(a)])]

\* the chunks of a tool-call stream (test_transcoder_tool_calls): a chunk
\* that opens a call, chunks with an arguments fragment, the closing chunk
ToolChunks ==
    {LegacyChunk(<<LegacyChoice(LegacyDelta(c, Some(<<t>>)), None)>>) :
        c \in {None, Some("")}, t \in {ToolCallOpen, ToolCallOther}}
    \cup {LegacyChunk(<<LegacyChoice(LegacyDelta(None, Some(<<ArgsFragment(a)>>)), None)>>) :
            a \in {"", "x", "y"}}
    \cup {LegacyChunk(<<LegacyChoice(LegacyDelta(None, None), Some("tool_calls"))>>)}

\* finish reasons: the three the code names, and two it does not
AllFinishReasons == {"stop", "length", "content_filter", "tool_calls", "function_call"}

FinishChunks ==
    {LegacyChunk(<<LegacyChoice(LegacyDelta(c, t), f)>>) :
        c \in {None, Some("a")},
        t \in {None, Some(<<ToolCallOpen>>)},
        f \in {None} \cup {Some(r) : r \in AllFinishReasons}}

(***************************************************************************)
(* ORS events (types.rs OrsEvent) and the JSON items they carry            *)
(***************************************************************************)
Created(id, seq) ==
    [type |-> "response.created", id |-> id, sequence_number |-> seq]

ItemAdded(seq, item) ==
    [type |-> "response.output_item.added", sequence_number |-> seq, item |-> item]

ContentPartAdded(seq, item_id, output_index, content_index, part) ==
    [type |-> "response.content_part.added", sequence_number |-> seq,
     item_id |-> item_id, output_index |-> output_index,
     content_index |-> content_index, part |-> part]

TextDelta(seq, item_id, output_index, content_index, delta) ==
    [type |-> "response.output_text.delta", sequence_number |-> seq,
     item_id |-> item_id, output_index |-> output_index,
     content_index |-> content_index, delta |-> delta]

FunctionCallArgumentsDelta(seq, item_id, output_index, delta) ==
    [type |-> "response.function_call_arguments.delta", sequence_number |-> seq,
     item_id |-> item_id, output_index |-> output_index, delta |-> delta]

ContentPartDone(seq, item_id, output_index, content_index, part) ==
    [type |-> "response.content_part.done", sequence_number |-> seq,
     item_id |-> item_id, output_index |-> output_index,
     content_index |-> content_index, part |-> part]

ItemDone(seq, output_index, item) ==
    [type |-> "response.output_item.done", sequence_number |-> seq,
     output_index |-> output_index, item |-> item]

MessageItem(item_id) ==
    [id |-> item_id, type |-> "message", status |-> "in_progress",
     role |-> "assistant", content |-> <<>>]

\* faulty variant: call id and function name change places
FunctionCallItemSwapped(item_id, call_id, name) ==
    [id |-> item_id, type |-> "function_call", status |-> "in_progress",
     call_id |-> name, name |-> call_id, arguments |-> ""]

FunctionCallItem(item_id, call_id, name) ==
    [id |-> item_id, type |-> "function_call", status |-> "in_progress",
     call_id |-> call_id, name |-> name, arguments |-> ""]

DoneItem(item_id, item_type, status) ==
    [id |-> item_id, type |-> item_type, status |-> status]

EmptyTextPart == [type |-> "output_text", text |-> ""]

(***************************************************************************)
(* Transcoder::new                                                         *)
(***************************************************************************)
new(token) ==
    [response_id |-> <<"resp", token>>,
     current_item_id |-> None,
     current_item_type |-> None,
     current_content_index |-> None,
     has_emitted_content_start |-> FALSE,
     state |-> "Init",
     sequence_number |-> 0]

(***************************************************************************)
(* Transcoder::next_seq: returns the counter and increments it.  The       *)
(* counter is a u32; a request of at most MaxChunks chunks emits far fewer *)
(* than 2^32 events, so the increment never wraps here.                    *)
(***************************************************************************)
next_seq(self) ==
    [seq |-> Some(self.sequence_number),
     self |-> [self EXCEPT !.sequence_number = @ + 1]]

(***************************************************************************)
(* Transcoder::process, in the order of the source.  A frame f carries the *)
(* struct (f.self), the events vector of this call (f.events) and the      *)
(* token source (f.uuid).                                                  *)
(***************************************************************************)

\* faulty variant: the lifecycle state is left at Init
EnterStreamingStaysInit(self) == self

\* self.state = TranscoderState::Streaming (transcoder.rs 72)
EnterStreaming(self) == [self EXCEPT !.state = "Streaming"]

\* 1. first-chunk logic (transcoder.rs 44-73)
HandleInit(f, choice) ==
    IF f.self.state = "Init"
    THEN LET ns == next_seq(f.self)
             seq == ns.seq
             ev1 == Append(f.events, Created(ns.self.response_id, seq))
             has_tool_calls == IsSome(choice.delta.tool_calls)
                               /\ Unwrap(choice.delta.tool_calls) # <<>>
             has_content == IsSome(choice.delta.content)
                            /\ Unwrap(choice.delta.content) # ""
         IN IF ~has_tool_calls \/ has_content
            THEN LET item_id == <<"msg", f.uuid>>
                 IN [self |-> EnterStreaming([ns.self EXCEPT
                                  !.current_item_id = Some(item_id),
                                  !.current_item_type = Some("message")]),
                     \* the ItemAdded reuses seq of the Created event
                     events |-> Append(ev1, ItemAdded(seq, MessageItem(item_id))),
                     uuid |-> f.uuid + 1]
            ELSE [self |-> EnterStreaming(ns.self),
                  events |-> ev1,
                  uuid |-> f.uuid]
    ELSE f

\* faulty variant: the part is announced but has_emitted_content_start is
\* not set
OpenContentPartNoFlag(f, item_id) ==
    IF ~f.self.has_emitted_content_start
    THEN LET ns == next_seq(f.self)
             content_idx == UnwrapOr(ns.self.current_content_index, 0)
         IN [f EXCEPT
               !.self = [ns.self EXCEPT
                           !.current_content_index = Some(content_idx)],
               !.events = Append(@, ContentPartAdded(ns.seq, item_id,
                                   Some(0), Some(content_idx),
                                   EmptyTextPart))]
    ELSE f

\* start of a content part (transcoder.rs 85-98)
OpenContentPart(f, item_id) ==
    IF ~f.self.has_emitted_content_start
    THEN LET ns == next_seq(f.self)
             content_idx == UnwrapOr(ns.self.current_content_index, 0)
         IN [f EXCEPT
               !.self = [ns.self EXCEPT
                           !.current_content_index = Some(content_idx),
                           !.has_emitted_content_start = TRUE],
               !.events = Append(@, ContentPartAdded(ns.seq, item_id,
                                   Some(0), Some(content_idx),
                                   EmptyTextPart))]
    ELSE f

\* 2. content deltas (transcoder.rs 77-110); item_id is the local of line 75
HandleContent(f, choice, item_id) ==
    IF /\ IsSome(choice.delta.content)
       /\ Unwrap(choice.delta.content) # ""
       /\ item_id # EmptyId
    THEN LET content == Unwrap(choice.delta.content)
             f1 == OpenContentPart(f, item_id)
             ns2 == next_seq(f1.self)
         IN [f1 EXCEPT
               !.self = ns2.self,
               !.events = Append(@, TextDelta(ns2.seq, item_id, Some(0),
                                     ns2.self.current_content_index, content))]
    ELSE f

\* one iteration of the tool-call loop (transcoder.rs 113-163)
HandleToolCall(f, tool_call) ==
    LET id == tool_call.id
        function == tool_call.function
        name == IF IsSome(function) THEN Unwrap(function).name ELSE None
        args_delta == IF IsSome(function) THEN Unwrap(function).arguments ELSE None
        f1 == IF IsSome(id)
              THEN LET new_item_id == <<"fc", f.uuid>>
                       call_name == UnwrapOr(name, "unknown")
                       s1 == [f.self EXCEPT !.current_item_id = Some(new_item_id)]
                       ns == next_seq(s1)
                   IN [self |-> [ns.self EXCEPT
                                    !.current_item_type = Some("function_call")],
                       events |-> Append(f.events,
                                    ItemAdded(ns.seq,
                                      FunctionCallItem(new_item_id, Unwrap(id), call_name))),
                       uuid |-> f.uuid + 1]
              ELSE f
    IN IF /\ IsSome(args_delta)
          /\ Unwrap(args_delta) # ""
          /\ IsSome(f1.self.current_item_id)
       THEN LET ns == next_seq(f1.self)
            IN [f1 EXCEPT
                  !.self = ns.self,
                  !.events = Append(@, FunctionCallArgumentsDelta(ns.seq,
                                        Unwrap(f1.self.current_item_id), Some(0),
                                        Unwrap(args_delta)))]
       ELSE f1

\* the tool-call loop (transcoder.rs 112-164)
RECURSIVE HandleToolCalls(_, _)
HandleToolCalls(f, tool_calls) ==
    IF tool_calls = <<>>
    THEN f
    ELSE HandleToolCalls(HandleToolCall(f, Head(tool_calls)), Tail(tool_calls))

\* faulty variant: content_filter falls through to the default arm
FinishStatusNoFilter(finish_reason) ==
    CASE finish_reason = "stop" -> "completed"
      [] finish_reason = "length" -> "incomplete"
      [] OTHER -> "completed"

\* finish reason to item status (transcoder.rs 168-173)
FinishStatus(finish_reason) ==
    CASE finish_reason = "stop" -> "completed"
      [] finish_reason = "length" -> "incomplete"
      [] finish_reason = "content_filter" -> "incomplete"
      [] OTHER -> "completed"

\* faulty variant: the flag is cleared but no content_part.done is pushed
CloseContentPartSilent(f, item_id) ==
    IF f.self.has_emitted_content_start
    THEN [f EXCEPT
            !.self = [f.self EXCEPT
                        !.has_emitted_content_start = FALSE,
                        !.current_content_index = None]]
    ELSE f

\* close of the open content part at completion (transcoder.rs 175-203)
CloseContentPart(f, item_id) ==
    IF f.self.has_emitted_content_start
    THEN LET ns == next_seq(f.self)
             content_idx == UnwrapOr(ns.self.current_content_index, 0)
         IN [f EXCEPT
               !.self = [ns.self EXCEPT
                           !.has_emitted_content_start = FALSE,
                           !.current_content_index = None],
               !.events = Append(@, ContentPartDone(ns.seq, item_id,
                                   Some(0), Some(content_idx),
                                   EmptyTextPart))]
    ELSE f

\* faulty variant: the kind of the finished item is kept
HandleFinishKeepsType(f, choice, item_id) ==
    IF IsSome(choice.finish_reason)
    THEN LET status == FinishStatus(Unwrap(choice.finish_reason))
             f1 == CloseContentPart(f, item_id)
             ns2 == next_seq(f1.self)
             item_type == UnwrapOr(ns2.self.current_item_type, "message")
         IN [f1 EXCEPT
               !.self = [ns2.self EXCEPT !.current_item_id = None],
               !.events = Append(@, ItemDone(ns2.seq, Some(0),
                                     DoneItem(item_id, item_type, status)))]
    ELSE f

\* 3. completion (transcoder.rs 166-220); item_id is the local of line 75
HandleFinish(f, choice, item_id) ==
    IF IsSome(choice.finish_reason)
    THEN LET status == FinishStatus(Unwrap(choice.finish_reason))
             f1 == CloseContentPart(f, item_id)
             ns2 == next_seq(f1.self)
             item_type == UnwrapOr(ns2.self.current_item_type, "message")
         IN [f1 EXCEPT
               !.self = [ns2.self EXCEPT
                           !.current_item_id = None,
                           !.current_item_type = None],
               !.events = Append(@, ItemDone(ns2.seq, Some(0),
                                     DoneItem(item_id, item_type, status)))]
    ELSE f

\* Transcoder::process (transcoder.rs 38-224)
process(self, chunk, token) ==
    LET f0 == [self |-> self, events |-> <<>>, uuid |-> token]
    IN IF chunk.choices = <<>>
       THEN f0
       ELSE LET choice == Head(chunk.choices)
                f1 == HandleInit(f0, choice)
                item_id == UnwrapOr(f1.self.current_item_id, EmptyId)
                f2 == HandleContent(f1, choice, item_id)
                f3 == IF IsSome(choice.delta.tool_calls)
                      THEN HandleToolCalls(f2, Unwrap(choice.delta.tool_calls))
                      ELSE f2
            IN HandleFinish(f3, choice, item_id)

\* the loop of make_stream over the chunks cs (main.rs 171-203): the
\* transcoder's struct afterwards and every event pushed on the buffer
RECURSIVE RunTranscoder(_, _, _, _)
RunTranscoder(self, token, events, cs) ==
    IF cs = <<>>
    THEN [self |-> self, events |-> events, uuid |-> token]
    ELSE LET r == process(self, Head(cs), token)
         IN RunTranscoder(r.self, r.uuid, events \o r.events, Tail(cs))

(***************************************************************************)
(* The frame codec (src/src/sse_codec.rs).  A byte is its number; a line   *)
(* is the sequence of its bytes.                                           *)
(***************************************************************************)
LF == 10
CR == 13

\* the bytes of the upstream: a letter, the two delimiters, and 0xFF, which
\* no UTF-8 text contains
Bytes == {97, CR, LF, 255}

\* the buffers of one read of the upstream: up to two bytes
ByteChunks ==
    {<<>>} \cup {<<b>> : b \in Bytes} \cup {<<b, c>> : b \in Bytes, c \in Bytes}

\* SseCodec::new
new_codec == [buffer |-> <<>>]

\* std::str::from_utf8 succeeds; over Bytes a slice is valid UTF-8 exactly
\* when all its bytes are ASCII (sse_codec.rs 29)
Utf8Valid(line_slice) == \A i \in 1..Len(line_slice) : line_slice[i] < 128

\* faulty variant: every trailing carriage return is removed
RECURSIVE StripCrAll(_)
StripCrAll(line_bytes) ==
    IF line_bytes # <<>> /\ line_bytes[Len(line_bytes)] = CR
    THEN StripCrAll(SubSeq(line_bytes, 1, Len(line_bytes) - 1))
    ELSE line_bytes

\* faulty variant: the carriage return is kept
StripCrNever(line_bytes) == line_bytes

\* the line without one trailing carriage return (sse_codec.rs 23-27)
StripCr(line_bytes) ==
    IF line_bytes # <<>> /\ line_bytes[Len(line_bytes)] = CR
    THEN SubSeq(line_bytes, 1, Len(line_bytes) - 1)
    ELSE line_bytes

\* a decoded, non-empty line is pushed (sse_codec.rs 29-33)
PushLine(lines, line_slice) ==
    IF Utf8Valid(line_slice) /\ line_slice # <<>>
    THEN Append(lines, line_slice)
    ELSE lines

\* position of the first line feed, 0 if there is none (sse_codec.rs 18)
FirstLf(buffer) ==
    IF \E i \in 1..Len(buffer) : buffer[i] = LF
    THEN CHOOSE i \in 1..Len(buffer) :
            buffer[i] = LF /\ \A j \in 1..(i - 1) : buffer[j] # LF
    ELSE 0

\* the while loop of decode (sse_codec.rs 18-34)
RECURSIVE DrainLines(_, _)
DrainLines(buffer, lines) ==
    LET i == FirstLf(buffer)
    IN IF i = 0
       THEN [self |-> [buffer |-> buffer], lines |-> lines]
       ELSE LET line_bytes == SubSeq(buffer, 1, i - 1)
                rest == SubSeq(buffer, i + 1, Len(buffer))
            IN DrainLines(rest, PushLine(lines, StripCr(line_bytes)))

\* faulty variant: the bytes retained from the last call are forgotten
decode_forgets_tail(self, chunk) == DrainLines(chunk, <<>>)

\* SseCodec::decode (sse_codec.rs 14-37)
decode(self, chunk) == DrainLines(self.buffer \o chunk, <<>>)

(***************************************************************************)
(* The lines of the upstream as the loop of make_stream sees them          *)
(* (main.rs 177-202).  A line is its prefix and the rest; the rest of a    *)
(* data line is the payload.  A payload is <<"chunk", c>> when its text is *)
(* the JSON of the Legacy chunk c, and a one-element tuple with its text   *)
(* otherwise.  line.trim() leaves all these lines as they are.             *)
(***************************************************************************)
Line(prefix, rest) == [prefix |-> prefix, rest |-> rest]

DonePayload == <<"[DONE]">>

\* payloads that serde_json rejects: broken JSON, and JSON without choices
MalformedPayloads == {<<"{\"choices\":[">>, <<"{\"error\":\"overloaded\"}">>}

\* the chunks of scenario 1 and the opening chunk of scenario 2
LineChunks ==
    {LegacyChunk(<<LegacyChoice(LegacyDelta(Some("a"), None), None)>>),
     LegacyChunk(<<LegacyChoice(LegacyDelta(None, None), Some("stop"))>>),
     LegacyChunk(<<LegacyChoice(LegacyDelta(None, Some(<<ToolCallOpen>>)), None)>>)}

Lines ==
    {Line("data: ", <<"chunk", c>>) : c \in LineChunks}
    \cup {Line("data: ", DonePayload)}
    \cup {Line("data: ", m) : m \in MalformedPayloads}
    \cup {Line("event: ", <<"ping">>)}

\* faulty variant: a payload that is not a chunk parses to a chunk with one
\* empty choice
from_str_lenient(json_str) ==
    IF json_str[1] = "chunk"
    THEN Some(json_str[2])
    ELSE Some(LegacyChunk(<<LegacyChoice(LegacyDelta(None, None), None)>>))

\* serde_json::from_str::<LegacyChunk> (main.rs 185): Ok as Some, Err as None
from_str(json_str) ==
    IF json_str[1] = "chunk" THEN Some(json_str[2]) ELSE None

(***************************************************************************)
(* The request: make_stream creates the transcoder, then feeds it every    *)
(* chunk parsed from the upstream and accumulates the events.              *)
(***************************************************************************)
(***************************************************************************)
(* The conversation store (src/src/db.rs).  Table items is the sequence of *)
(* its rows in insertion order (the autoincrement id of a row is its       *)
(* position); table conversations is the set of its ids (created_at is     *)
(* written once and never read).  A JSON text is the record of its keys.   *)
(***************************************************************************)
\* OrsInputItem and OrsContentPart (types.rs 21-53)
Message(role, content) ==
    [variant |-> "Message", role |-> role, content |-> content]

FunctionCallOutput(id, call_id, output) ==
    [variant |-> "FunctionCallOutput", id |-> id, call_id |-> call_id,
     output |-> output]

InputText(text) == [variant |-> "InputText", text |-> text]

\* faulty variant: every role is written as "user"
role_to_string_user(role) == "user"

\* serde rename_all = "snake_case" on OrsRole (types.rs 40-46)
role_to_string(role) ==
    CASE role = "User" -> "user"
      [] role = "Assistant" -> "assistant"
      [] role = "Developer" -> "developer"

role_from_str(str) ==
    CASE str = "user" -> Some("User")
      [] str = "assistant" -> Some("Assistant")
      [] str = "developer" -> Some("Developer")
      [] OTHER -> None

\* serde tag = "type" on OrsContentPart (types.rs 48-53)
part_to_string(part) ==
    IF part.variant = "InputText"
    THEN [type |-> "input_text", text |-> part.text]
    ELSE [type |-> "input_image", image_url |-> part.image_url]

part_from_str(json) ==
    CASE json.type = "input_text" ->
            Some([variant |-> "InputText", text |-> json.text])
      [] json.type = "input_image" ->
            Some([variant |-> "InputImage", image_url |-> json.image_url])
      [] OTHER -> None

\* serde_json::to_string of an OrsInputItem (types.rs 21-38, db.rs 101, 159)
item_to_string(item) ==
    CASE item.variant = "Message" ->
            [type |-> "message", role |-> role_to_string(item.role),
             content |-> [i \in 1..Len(item.content) |-> part_to_string(item.content[i])]]
      [] item.variant = "FunctionCall" ->
            [type |-> "function_call", id |-> item.id, call_id |-> item.call_id,
             name |-> item.name, arguments |-> item.arguments]
      [] item.variant = "FunctionCallOutput" ->
            [type |-> "function_call_output", id |-> item.id,
             call_id |-> item.call_id, output |-> item.output]

\* serde_json::from_str to an OrsInputItem (db.rs 55); None is the Err case
item_from_str(json) ==
    CASE json.type = "message" ->
            IF /\ IsSome(role_from_str(json.role))
               /\ \A i \in 1..Len(json.content) : IsSome(part_from_str(json.content[i]))
            THEN Some(Message(Unwrap(role_from_str(json.role)),
                              [i \in 1..Len(json.content) |->
                                  Unwrap(part_from_str(json.content[i]))]))
            ELSE None
      [] json.type = "function_call" ->
            Some([variant |-> "FunctionCall", id |-> json.id, call_id |-> json.call_id,
                  name |-> json.name, arguments |-> json.arguments])
      [] json.type = "function_call_output" ->
            Some(FunctionCallOutput(json.id, json.call_id, json.output))
      [] OTHER -> None

\* a row of table items (db.rs 30-37); task names the call that inserted the
\* row and is not a column
Row(conversation_id, sequence_index, item_type, payload, task) ==
    [conversation_id |-> conversation_id, sequence_index |-> sequence_index,
     item_type |-> item_type, payload |-> payload, task |-> task]

RowsOf(rows, conversation_id) ==
    {i \in 1..Len(rows) : rows[i].conversation_id = conversation_id}

\* faulty variant: the next index is always zero
count_rows_zero(rows, conversation_id) == 0

\* SELECT COUNT(*) FROM items WHERE conversation_id = ? (db.rs 90-97)
count_rows(rows, conversation_id) == Cardinality(RowsOf(rows, conversation_id))

\* the orders in which a set of rows can be listed
Perms(S) ==
    {f \in [1..Cardinality(S) -> S] : \A i, j \in DOMAIN f : f[i] = f[j] => i = j}

\* ORDER BY sequence_index ASC (db.rs 45): the row orders the query can
\* return for the rows whose index is at least k; rows of equal index come
\* in any order
RECURSIVE OrderedFrom(_, _, _)
OrderedFrom(rows, conversation_id, k) ==
    IF \A i \in RowsOf(rows, conversation_id) : rows[i].sequence_index < k
    THEN {<<>>}
    ELSE {p \o rest :
            p \in Perms({i \in RowsOf(rows, conversation_id) : rows[i].sequence_index = k}),
            rest \in OrderedFrom(rows, conversation_id, k + 1)}

\* Db::load_context (db.rs 43-67): the values the call can return; a
\* payload that does not parse makes it panic
load_context(rows, conversation_id) ==
    {IF \E j \in 1..Len(o) : ~IsSome(item_from_str(rows[o[j]].payload))
     THEN "panic"
     ELSE [j \in 1..Len(o) |-> Unwrap(item_from_str(rows[o[j]].payload))] :
        o \in OrderedFrom(rows, conversation_id, 0)}

\* the loop over output_events (db.rs 134-148).  The key of an added item is
\* the id of its item object.
RECURSIVE ReconstructItems(_, _, _)
ReconstructItems(items_map, item_order, output_events) ==
    IF output_events = <<>>
    THEN [items_map |-> items_map, item_order |-> item_order]
    ELSE LET event == Head(output_events)
             rest == Tail(output_events)
         IN IF event.type = "response.output_item.added"
            THEN LET item_id == event.item.id
                     state == [item_type |-> event.item.type, content |-> ""]
                 IN ReconstructItems(
                        [k \in DOMAIN items_map \cup {item_id} |->
                            IF k = item_id THEN state ELSE items_map[k]],
                        Append(item_order, item_id), rest)
            ELSE IF /\ event.type = "response.output_text.delta"
                    /\ event.item_id \in DOMAIN items_map
                 THEN ReconstructItems(
                        [items_map EXCEPT ![event.item_id].content = @ \o event.delta],
                        item_order, rest)
                 ELSE ReconstructItems(items_map, item_order, rest)

\* faulty variant: the items are written last-seen first
ReconstructReversed(output_events) ==
    LET r == ReconstructItems(<<>>, <<>>, output_events)
        n == Len(r.item_order)
    IN [i \in 1..n |->
          LET state == r.items_map[r.item_order[n + 1 - i]]
          IN [item_type |-> state.item_type,
              item |-> Message("Assistant", <<InputText(state.content)>>)]]

\* the items written for a buffer of events, with their item_type labels, in
\* the order of the second loop (db.rs 150-170)
Reconstruct(output_events) ==
    LET r == ReconstructItems(<<>>, <<>>, output_events)
    IN [i \in 1..Len(r.item_order) |->
          LET state == r.items_map[r.item_order[i]]
          IN [item_type |-> state.item_type,
              item |-> Message("Assistant", <<InputText(state.content)>>)]]

\* the arguments of the calls: two conversation ids (an id is a prefix and a
\* number, as the generated ids are), two request inputs and
\* the event buffers of a text turn and of a turn of text then a tool call
ConversationIds == {<<"conv", 1>>, <<"conv", 2>>}

UserMessage == Message("User", <<InputText("hi")>>)
ToolOutput == FunctionCallOutput("out_1", "call_123", "sunny")

Inputs == {<<UserMessage>>, <<ToolOutput, UserMessage>>}

ContentChunk(c, f) == LegacyChunk(<<LegacyChoice(LegacyDelta(Some(c), None), f)>>)

TextTurnBuffer ==
    RunTranscoder(new(0), 1, <<>>,
                  <<ContentChunk("a", None), ContentChunk("b", Some("stop"))>>).events

MixedTurnBuffer ==
    RunTranscoder(new(0), 1, <<>>,
                  <<ContentChunk("a", None),
                    LegacyChunk(<<LegacyChoice(LegacyDelta(None, Some(<<ToolCallOpen>>)),
                                               Some("tool_calls"))>>)>>).events

OutputBuffers == {TextTurnBuffer, MixedTurnBuffer}

\* the tasks that call save_interaction (tokio::spawn'ed requests, main.rs
\* 205-208); each makes one call
Tasks == {"t1", "t2"}

IdleSave ==
    [pc |-> "idle", conversation_id |-> EmptyId, input |-> <<>>, output_events |-> <<>>,
     sequence_index |-> 0, input_left |-> <<>>, output_left |-> <<>>,
     overlapped |-> FALSE]

(***************************************************************************)
(* The request translator (src/src/upstream.rs).  A serde_json::Value is   *)
(* tagged with its JSON kind.                                              *)
(***************************************************************************)
\* OrsInputItem::FunctionCall and OrsContentPart::InputImage (types.rs 27-32, 52)
FunctionCall(id, call_id, name, arguments) ==
    [variant |-> "FunctionCall", id |-> id, call_id |-> call_id, name |-> name,
     arguments |-> arguments]

InputImage(image_url) == [variant |-> "InputImage", image_url |-> image_url]

JsonString(str) == [json |-> "string", value |-> str]
JsonArray(values) == [json |-> "array", value |-> values]
JsonObject(fields) == [json |-> "object", value |-> fields]

\* Value::to_string: the JSON text that denotes the value
value_to_string(value) == [json_text |-> value]

\* LegacyMessage (types.rs 66-75)
LegacyMessage(role, content, tool_calls, tool_call_id) ==
    [role |-> role, content |-> content, tool_calls |-> tool_calls,
     tool_call_id |-> tool_call_id]

\* faulty variant: a developer message keeps the role name
role_str_same(role) ==
    CASE role = "User" -> "user"
      [] role = "Assistant" -> "assistant"
      [] role = "Developer" -> "developer"

\* the match on role (upstream.rs 9-13)
role_str(role) ==
    CASE role = "User" -> "user"
      [] role = "Assistant" -> "assistant"
      [] role = "Developer" -> "system"

\* the loop over content (upstream.rs 15-42): content_parts
RECURSIVE content_parts(_)
content_parts(content) ==
    IF content = <<>> THEN <<>>
    ELSE LET part == Head(content)
         IN (IF part.variant = "InputText"
             THEN IF part.text # ""
                  THEN <<JsonObject([type |-> "text", text |-> part.text])>>
                  ELSE <<>>
             ELSE <<JsonObject([type |-> "image_url", image_url |-> part.image_url])>>)
            \o content_parts(Tail(content))

has_image(content) == \E i \in 1..Len(content) : content[i].variant = "InputImage"

\* filter_map over the "text" keys, then join("") (upstream.rs 50-53)
RECURSIVE full_text(_)
full_text(parts) ==
    IF parts = <<>> THEN ""
    ELSE (IF "text" \in DOMAIN Head(parts).value THEN Head(parts).value.text ELSE "")
         \o full_text(Tail(parts))

\* faulty variant: an empty text is sent as an empty string
legacy_content_always(content) ==
    IF has_image(content)
    THEN Some(JsonArray(content_parts(content)))
    ELSE Some(JsonString(full_text(content_parts(content))))

\* legacy_content (upstream.rs 44-60)
legacy_content(content) ==
    IF has_image(content)
    THEN Some(JsonArray(content_parts(content)))
    ELSE IF full_text(content_parts(content)) # ""
         THEN Some(JsonString(full_text(content_parts(content))))
         ELSE None

\* one turn of the loop over input (upstream.rs 7-98)
transform_item(item) ==
    CASE item.variant = "Message" ->
            LegacyMessage(role_str(item.role), legacy_content(item.content), None, None)
      [] item.variant = "FunctionCall" ->
            LegacyMessage("assistant", None,
                Some(<<JsonObject([id |-> item.call_id, type |-> "function",
                                   function |-> [name |-> item.name,
                                                 arguments |-> value_to_string(item.arguments)]])>>),
                None)
      [] item.variant = "FunctionCallOutput" ->
            LegacyMessage("tool", Some(JsonString(item.output)), None, Some(item.call_id))

\* transform_ors_to_legacy (upstream.rs 3-101)
RECURSIVE transform_ors_to_legacy(_)
transform_ors_to_legacy(input) ==
    IF input = <<>> THEN <<>>
    ELSE <<transform_item(Head(input))>> \o transform_ors_to_legacy(Tail(input))

\* the content lists of the messages translated: no part, text parts (empty
\* ones among them), an image, text with an image
ImageUrl == JsonObject([url |-> "http://img.png"])

PartLists ==
    {<<>>, <<InputText("")>>, <<InputText("a")>>, <<InputText("a"), InputText("b")>>,
     <<InputText(""), InputText("a")>>, <<InputText(""), InputText("")>>,
     <<InputImage(ImageUrl)>>, <<InputText("a"), InputImage(ImageUrl)>>,
     <<InputText(""), InputImage(ImageUrl)>>}

OrsRoles == {"User", "Assistant", "Developer"}

InputItems ==
    {Message(role, content) : role \in OrsRoles, content \in PartLists}
    \cup {FunctionCall("item_1", "call_abc", "get_weather",
                       JsonObject([city |-> "SF"])),
          FunctionCallOutput("item_2", "call_abc", "Sunny")}

(***************************************************************************)
(* The request handler (src/src/main.rs, create_response and make_stream). *)
(***************************************************************************)
\* a request not yet received: the payload fields the handler reads, the
\* locals it computes, and what the client has got (status, SSE events, and
\* whether the body ended with an error)
IdleRequest ==
    [pc |-> "idle", previous_response_id |-> None, input |-> <<>>,
     conversation_id |-> EmptyId, history |-> <<>>, status |-> None, sse |-> <<>>,
     stream_error |-> FALSE]

\* Uuid::new_v4().to_string() (main.rs 83): a token without prefix
FreshId(token) == <<"", token>>

\* the chunk streams the upstream answers with: a text turn, text then a
\* tool call, a tool call then text; the upstream can stop after any chunk
ToolOpenChunk(f) ==
    LegacyChunk(<<LegacyChoice(LegacyDelta(None, Some(<<ToolCallOpen>>)), f)>>)

UpstreamStreams ==
    {<<ContentChunk("a", None), ContentChunk("b", Some("stop"))>>,
     <<ContentChunk("a", None), ToolOpenChunk(Some("tool_calls"))>>,
     <<ToolOpenChunk(None), ContentChunk("b", Some("stop"))>>}

StreamPrefixes == {SubSeq(stream, 1, n) : stream \in UpstreamStreams, n \in 0..2}

(***************************************************************************)
(* The upstream on the wire, for requests that run side by side.  The text *)
(* of a data line is the sequence of its bytes.                            *)
(***************************************************************************)
\* "data: " (main.rs 179)
DataPrefix ==
    <<100, 97, 116, 97, 58, 32>>

\* "[DONE]" (main.rs 181)
DoneText ==
    <<91, 68, 79, 78, 69, 93>>

\* {"choices":[{"delta":{"content":"a"}}]}
ContentJson ==
    <<123, 34, 99, 104, 111, 105, 99, 101, 115, 34, 58, 91, 123, 34, 100,
      101, 108, 116, 97, 34, 58, 123, 34, 99, 111, 110, 116, 101, 110, 116,
      34, 58, 34, 97, 34, 125, 125, 93, 125>>

\* {"choices":[{"delta":{},"finish_reason":"stop"}]}
StopJson ==
    <<123, 34, 99, 104, 111, 105, 99, 101, 115, 34, 58, 91, 123, 34, 100,
      101, 108, 116, 97, 34, 58, 123, 125, 44, 34, 102, 105, 110, 105, 115,
      104, 95, 114, 101, 97, 115, 111, 110, 34, 58, 34, 115, 116, 111, 112,
      34, 125, 93, 125>>

StopChunk == LegacyChunk(<<LegacyChoice(LegacyDelta(None, None), Some("stop"))>>)

\* serde_json::from_str::<LegacyChunk> on the bytes of a payload (main.rs
\* 185): the two texts above are the JSON of a chunk; every other text the
\* reads below can form is no JSON
from_str_bytes(json_str) ==
    CASE json_str = ContentJson -> Some(ContentChunk("a", None))
      [] json_str = StopJson -> Some(StopChunk)
      [] OTHER -> None

\* char::is_whitespace over the bytes used here: tab to carriage return, space
IsWhitespace(byte) == byte \in 9..13 \/ byte = 32

\* str::trim (main.rs 178)
RECURSIVE trim(_)
trim(line) ==
    IF line # <<>> /\ IsWhitespace(Head(line)) THEN trim(Tail(line))
    ELSE IF line # <<>> /\ IsWhitespace(line[Len(line)])
         THEN trim(SubSeq(line, 1, Len(line) - 1))
         ELSE line

starts_with(line, prefix) ==
    Len(line) >= Len(prefix) /\ SubSeq(line, 1, Len(prefix)) = prefix

\* the chunks that the loop over the decoded lines hands to the transcoder
\* (main.rs 177-186)
RECURSIVE ChunksOfDecoded(_)
ChunksOfDecoded(lines) ==
    IF lines = <<>> THEN <<>>
    ELSE LET line == trim(Head(lines))
             json_str == SubSeq(line, Len(DataPrefix) + 1, Len(line))
         IN (IF /\ starts_with(line, DataPrefix)
                /\ json_str # DoneText
                /\ IsSome(from_str_bytes(json_str))
             THEN <<Unwrap(from_str_bytes(json_str))>>
             ELSE <<>>)
            \o ChunksOfDecoded(Tail(lines))

\* the buffers of one read: a whole data line, a data line with CRLF, the
\* two halves of a data line, and a line that is no data line
Reads ==
    {DataPrefix \o ContentJson \o <<LF>>,
     DataPrefix \o StopJson \o <<CR, LF>>,
     SubSeq(DataPrefix \o ContentJson, 1, 20),
     SubSeq(DataPrefix \o ContentJson, 21, Len(DataPrefix \o ContentJson)) \o <<LF>>,
     <<97, LF>>}

\* make_stream not yet polled: no transcoder, no codec (main.rs 165)
IdleStream ==
    [pc |-> "idle", transcoder |-> None, codec |-> None,
     accumulated_events |-> <<>>, sse |-> <<>>, reads |-> <<>>]

Init ==
    /\ transcoder = new(0)
    /\ uuid = 1
    /\ accumulated_events = <<>>
    /\ chunks = <<>>
    /\ codec = new_codec
    /\ byte_chunks = <<>>
    /\ decoded_lines = <<>>
    /\ upstream_lines = <<>>
    /\ conversations = {}
    /\ items = <<>>
    /\ saves = [task \in Tasks |-> IdleSave]
    /\ save_log = <<>>
    /\ full_input = <<>>
    /\ legacy_messages = <<>>
    /\ requests = [task \in Tasks |-> IdleRequest]
    /\ streams = [task \in Tasks |-> IdleStream]

Feed(chunk) ==
    LET r == process(transcoder, chunk, uuid)
    IN /\ transcoder' = r.self
       /\ uuid' = r.uuid
       /\ accumulated_events' = accumulated_events \o r.events
       /\ chunks' = Append(chunks, chunk)
       /\ UNCHANGED codec_vars

Process ==
    /\ UNCHANGED concurrent_vars
    /\ Len(chunks) < MaxChunks
    /\ \E chunk \in Chunks : Feed(chunk)
    /\ UNCHANGED <<upstream_lines, store_vars, translate_vars, handler_vars>>

ProcessText ==
    /\ UNCHANGED concurrent_vars
    /\ Len(chunks) < MaxTextChunks
    /\ \E chunk \in TextChunks : Feed(chunk)
    /\ UNCHANGED <<upstream_lines, store_vars, translate_vars, handler_vars>>

Next == Process

Spec == Init /\ [][Next]_vars

NextText == ProcessText

SpecText == Init /\ [][NextText]_vars

ProcessTool ==
    /\ UNCHANGED concurrent_vars
    /\ Len(chunks) < MaxToolChunks
    /\ \E chunk \in ToolChunks : Feed(chunk)
    /\ UNCHANGED <<upstream_lines, store_vars, translate_vars, handler_vars>>

NextTool == ProcessTool

SpecTool == Init /\ [][NextTool]_vars

ProcessFinish ==
    /\ UNCHANGED concurrent_vars
    /\ Len(chunks) < MaxFinishChunks
    /\ \E chunk \in FinishChunks : Feed(chunk)
    /\ UNCHANGED <<upstream_lines, store_vars, translate_vars, handler_vars>>

NextFinish == ProcessFinish

SpecFinish == Init /\ [][NextFinish]_vars

\* one read of the upstream: the buffer goes through decode (main.rs 171-175)
Decode ==
    /\ UNCHANGED concurrent_vars
    /\ Len(byte_chunks) < MaxDecodes
    /\ \E chunk_bytes \in ByteChunks :
          LET r == decode(codec, chunk_bytes)
          IN /\ codec' = r.self
             /\ decoded_lines' = decoded_lines \o r.lines
             /\ byte_chunks' = Append(byte_chunks, chunk_bytes)
    /\ UNCHANGED <<request_vars, upstream_lines, store_vars, translate_vars, handler_vars>>

NextCodec == Decode

SpecCodec == Init /\ [][NextCodec]_vars

\* the body of the loop over the decoded lines (main.rs 177-202)
HandleLine ==
    /\ UNCHANGED concurrent_vars
    /\ Len(upstream_lines) < MaxLines
    /\ \E line \in Lines :
          /\ upstream_lines' = Append(upstream_lines, line)
          /\ IF line.prefix = "data: "
             THEN LET json_str == line.rest
                  IN IF json_str = DonePayload
                     THEN UNCHANGED <<request_vars, codec_vars>>
                     ELSE IF IsSome(from_str(json_str))
                          THEN Feed(Unwrap(from_str(json_str)))
                          ELSE UNCHANGED <<request_vars, codec_vars>>
             ELSE UNCHANGED <<request_vars, codec_vars>>
    /\ UNCHANGED <<store_vars, translate_vars, handler_vars>>

NextLines == HandleLine

SpecLines == Init /\ [][NextLines]_vars

(***************************************************************************)
(* Db::save_interaction (db.rs 69-173), one step per awaited query.     *)
(* Between two queries of one call the queries of another call can run:    *)
(* the pool hands every query its own connection and no transaction is     *)
(* opened.                                                                 *)
(***************************************************************************)
Running(save) ==
    save.pc \in {"insert_conversation", "count", "insert_input", "insert_output"}

\* where a call stands once the rows input_left and output_left remain
NextInsert(input_left, output_left) ==
    IF input_left # <<>> THEN "insert_input"
    ELSE IF output_left # <<>> THEN "insert_output"
    ELSE "ok"

\* the call itself (db.rs 69-79): the task's call record is set up; calls
\* that run on the same conversation at that moment are marked as overlapped
CallSave(task, conversation_id, input, output_events) ==
    LET Overlaps(other) ==
            /\ other # task
            /\ Running(saves[other])
            /\ saves[other].conversation_id = conversation_id
    IN /\ saves' = [other \in Tasks |->
                      IF other = task
                      THEN [IdleSave EXCEPT
                              !.pc = "insert_conversation",
                              !.conversation_id = conversation_id,
                              !.input = input,
                              !.output_events = output_events,
                              !.overlapped = \E o \in Tasks : Overlaps(o)]
                      ELSE IF Overlaps(other)
                           THEN [saves[other] EXCEPT !.overlapped = TRUE]
                           ELSE saves[other]]
       /\ save_log' = Append(save_log, task)

\* a task calls save_interaction (main.rs 205-208, db.rs 69-79)
StartSave(task) ==
    /\ UNCHANGED concurrent_vars
    /\ saves[task].pc = "idle"
    /\ \E conversation_id \in ConversationIds, input \in Inputs,
          output_events \in OutputBuffers :
          CallSave(task, conversation_id, input, output_events)
    /\ UNCHANGED <<conversations, items, stream_vars, translate_vars, handler_vars>>

\* INSERT OR IGNORE INTO conversations (db.rs 81-87)
InsertConversation(task) ==
    /\ UNCHANGED concurrent_vars
    /\ saves[task].pc = "insert_conversation"
    /\ conversations' = conversations \cup {saves[task].conversation_id}
    /\ saves' = [saves EXCEPT ![task].pc = "count"]
    /\ UNCHANGED <<items, save_log, stream_vars, translate_vars, handler_vars>>

\* SELECT COUNT(*) and let mut sequence_index (db.rs 90-97); the rows the
\* two loops will write are fixed by the arguments from here on
CountItems(task) ==
    /\ UNCHANGED concurrent_vars
    /\ saves[task].pc = "count"
    /\ LET save == saves[task]
           output_left == Reconstruct(save.output_events)
       IN saves' = [saves EXCEPT
                      ![task].sequence_index = count_rows(items, save.conversation_id),
                      ![task].input_left = save.input,
                      ![task].output_left = output_left,
                      ![task].pc = NextInsert(save.input, output_left)]
    /\ UNCHANGED <<conversations, items, save_log, stream_vars, translate_vars, handler_vars>>

\* one turn of the loop over input (db.rs 100-112)
InsertInput(task) ==
    /\ UNCHANGED concurrent_vars
    /\ saves[task].pc = "insert_input"
    /\ LET save == saves[task]
       IN /\ items' = Append(items, Row(save.conversation_id, save.sequence_index,
                                        "input", item_to_string(Head(save.input_left)),
                                        task))
          /\ saves' = [saves EXCEPT
                         ![task].sequence_index = @ + 1,
                         ![task].input_left = Tail(@),
                         ![task].pc = NextInsert(Tail(save.input_left), save.output_left)]
    /\ UNCHANGED <<conversations, save_log, stream_vars, translate_vars, handler_vars>>

\* one turn of the loop over item_order (db.rs 150-170)
InsertOutput(task) ==
    /\ UNCHANGED concurrent_vars
    /\ saves[task].pc = "insert_output"
    /\ LET save == saves[task]
           out == Head(save.output_left)
       IN /\ items' = Append(items, Row(save.conversation_id, save.sequence_index,
                                        out.item_type, item_to_string(out.item), task))
          /\ saves' = [saves EXCEPT
                         ![task].sequence_index = @ + 1,
                         ![task].output_left = Tail(@),
                         ![task].pc = NextInsert(<<>>, Tail(save.output_left))]
    /\ UNCHANGED <<conversations, save_log, stream_vars, translate_vars, handler_vars>>

\* faulty variant: the error of the query ends the response body
QueryFailsReachesClient(task) ==
    /\ UNCHANGED concurrent_vars
    /\ Running(saves[task])
    /\ saves' = [saves EXCEPT ![task].pc = "err"]
    /\ requests' = [requests EXCEPT ![task].stream_error = TRUE]
    /\ UNCHANGED <<conversations, items, save_log, stream_vars, translate_vars>>

\* the awaited query returns Err and the ? operator returns it (db.rs 87,
\* 95, 110, 168); the failed query changes no table
QueryFails(task) ==
    /\ UNCHANGED concurrent_vars
    /\ Running(saves[task])
    /\ saves' = [saves EXCEPT ![task].pc = "err"]
    /\ UNCHANGED <<conversations, items, save_log, stream_vars, translate_vars, handler_vars>>

NextStore ==
    \/ \E task \in Tasks : StartSave(task)
    \/ \E task \in Tasks : InsertConversation(task)
    \/ \E task \in Tasks : CountItems(task)
    \/ \E task \in Tasks : InsertInput(task)
    \/ \E task \in Tasks : InsertOutput(task)
    \/ \E task \in Tasks : QueryFails(task)

SpecStore == Init /\ [][NextStore]_vars

\* the caller hands one more item to the translator: full_input grows and
\* legacy_messages is its translation (main.rs 101-104)
Translate ==
    /\ UNCHANGED concurrent_vars
    /\ Len(full_input) < MaxItems
    /\ \E item \in InputItems :
          /\ full_input' = Append(full_input, item)
          /\ legacy_messages' = transform_ors_to_legacy(Append(full_input, item))
    /\ UNCHANGED <<stream_vars, store_vars, handler_vars>>

NextTranslate == Translate

SpecTranslate == Init /\ [][NextTranslate]_vars

(***************************************************************************)
(* create_response and make_stream, one step per await.  The client sends  *)
(* a request when no other request is in flight.                           *)
(***************************************************************************)
\* faulty variant: the response is over once the upstream stream has ended
InFlightUntilLastEvent(task) ==
    requests[task].pc \in {"load_context", "send", "error_text", "streaming"}

\* the response of the task's request is not over: the handler or the
\* stream, the save_interaction call at its end included, is still running
InFlight(task) ==
    \/ requests[task].pc \in {"load_context", "send", "error_text", "streaming"}
    \/ requests[task].pc = "saving" /\ Running(saves[task])

\* the ids the clients have been told: the ids of the response.created events
AnnouncedIds ==
    UNION {{requests[task].sse[k].id :
               k \in {i \in 1..Len(requests[task].sse) :
                         requests[task].sse[i].type = "response.created"}} :
           task \in Tasks}

\* the previous_response_id of a request: none, an id of the client's own
\* choice, or an id it was told
PreviousIds == {None, Some(<<"conv", 1>>)} \cup {Some(id) : id \in AnnouncedIds}

\* create_response up to its first await (main.rs 74-86 or 74-121)
Receive(task) ==
    /\ UNCHANGED concurrent_vars
    /\ requests[task].pc = "idle"
    /\ \A other \in Tasks : ~InFlight(other)
    /\ \E previous_response_id \in PreviousIds, input \in Inputs :
          IF IsSome(previous_response_id)
          THEN /\ requests' = [requests EXCEPT ![task] =
                     [IdleRequest EXCEPT
                        !.pc = "load_context",
                        !.previous_response_id = previous_response_id,
                        !.input = input,
                        !.conversation_id = Unwrap(previous_response_id)]]
               /\ UNCHANGED <<uuid, translate_vars>>
          ELSE /\ requests' = [requests EXCEPT ![task] =
                     [IdleRequest EXCEPT
                        !.pc = "send",
                        !.input = input,
                        !.conversation_id = FreshId(uuid)]]
               /\ uuid' = uuid + 1
               /\ full_input' = input
               /\ legacy_messages' = transform_ors_to_legacy(input)
    /\ UNCHANGED <<transcoder, accumulated_events, chunks, codec_vars,
                   upstream_lines, store_vars>>

\* faulty variant: the input is put before the history
LoadContextInputFirst(task) ==
    /\ UNCHANGED concurrent_vars
    /\ requests[task].pc = "load_context"
    /\ \E history \in load_context(items, requests[task].conversation_id) :
          /\ requests' = [requests EXCEPT ![task].pc = "send",
                                          ![task].history = history]
          /\ full_input' = requests[task].input \o history
          /\ legacy_messages' = transform_ors_to_legacy(requests[task].input \o history)
    /\ UNCHANGED <<stream_vars, store_vars>>

\* load_context returns Ok(history); the input is appended and the whole is
\* translated (main.rs 86-87, 101-121)
LoadContext(task) ==
    /\ UNCHANGED concurrent_vars
    /\ requests[task].pc = "load_context"
    /\ \E history \in load_context(items, requests[task].conversation_id) :
          /\ requests' = [requests EXCEPT ![task].pc = "send",
                                          ![task].history = history]
          /\ full_input' = history \o requests[task].input
          /\ legacy_messages' = transform_ors_to_legacy(history \o requests[task].input)
    /\ UNCHANGED <<stream_vars, store_vars>>

\* load_context returns Err: status 500 (main.rs 88-94)
LoadContextFails(task) ==
    /\ UNCHANGED concurrent_vars
    /\ requests[task].pc = "load_context"
    /\ requests' = [requests EXCEPT ![task].pc = "done", ![task].status = Some(500)]
    /\ UNCHANGED <<stream_vars, store_vars, translate_vars>>

\* faulty variant: a transport error is answered with status 500
UpstreamFailsInternal(task) ==
    /\ UNCHANGED concurrent_vars
    /\ requests[task].pc = "send"
    /\ requests' = [requests EXCEPT ![task].pc = "done", ![task].status = Some(500)]
    /\ UNCHANGED <<stream_vars, store_vars, translate_vars>>

\* send() returns Err: status 502 (main.rs 121-130)
UpstreamFails(task) ==
    /\ UNCHANGED concurrent_vars
    /\ requests[task].pc = "send"
    /\ requests' = [requests EXCEPT ![task].pc = "done", ![task].status = Some(502)]
    /\ UNCHANGED <<stream_vars, store_vars, translate_vars>>

\* send() returns a response whose status is not a success (main.rs 132-133)
UpstreamRejects(task) ==
    /\ UNCHANGED concurrent_vars
    /\ requests[task].pc = "send"
    /\ requests' = [requests EXCEPT ![task].pc = "error_text"]
    /\ UNCHANGED <<stream_vars, store_vars, translate_vars>>

\* the error text has been read: status 502 (main.rs 133-148)
ErrorText(task) ==
    /\ UNCHANGED concurrent_vars
    /\ requests[task].pc = "error_text"
    /\ requests' = [requests EXCEPT ![task].pc = "done", ![task].status = Some(502)]
    /\ UNCHANGED <<stream_vars, store_vars, translate_vars>>

\* send() returns a success: the SSE response is returned and the stream
\* starts with a new transcoder and an empty buffer (main.rs 152-169)
UpstreamAccepts(task) ==
    /\ UNCHANGED concurrent_vars
    /\ requests[task].pc = "send"
    /\ requests' = [requests EXCEPT ![task].pc = "streaming", ![task].status = Some(200)]
    /\ transcoder' = new(uuid)
    /\ uuid' = uuid + 1
    /\ accumulated_events' = <<>>
    /\ chunks' = <<>>
    /\ UNCHANGED <<codec_vars, upstream_lines, store_vars, translate_vars>>

\* the upstream delivers a data line with a chunk; every event is pushed on
\* the buffer and written to the client (main.rs 171-197)
StreamChunk(task) ==
    /\ UNCHANGED concurrent_vars
    /\ requests[task].pc = "streaming"
    /\ \E chunk \in {stream[Len(chunks) + 1] :
                       stream \in {p \in StreamPrefixes :
                                     /\ Len(p) = Len(chunks) + 1
                                     /\ SubSeq(p, 1, Len(chunks)) = chunks}} :
          /\ Feed(chunk)
          /\ requests' = [requests EXCEPT
                            ![task].sse = @ \o process(transcoder, chunk, uuid).events]
    /\ UNCHANGED <<upstream_lines, store_vars, translate_vars>>

\* the upstream stream yields an error: the stream ends with it and the
\* persistence step is not reached (main.rs 172)
StreamFails(task) ==
    /\ UNCHANGED concurrent_vars
    /\ requests[task].pc = "streaming"
    /\ requests' = [requests EXCEPT ![task].pc = "done", ![task].stream_error = TRUE]
    /\ UNCHANGED <<stream_vars, store_vars, translate_vars>>

\* faulty variant: the augmented history is saved
StreamEndsFullInput(task) ==
    /\ UNCHANGED concurrent_vars
    /\ requests[task].pc = "streaming"
    /\ saves[task].pc = "idle"
    /\ CallSave(task, requests[task].conversation_id, full_input, accumulated_events)
    /\ requests' = [requests EXCEPT ![task].pc = "saving"]
    /\ UNCHANGED <<conversations, items, stream_vars, translate_vars>>

\* faulty variant: a buffer without a finish reason is not saved
StreamEndsDropsPartial(task) ==
    /\ UNCHANGED concurrent_vars
    /\ requests[task].pc = "streaming"
    /\ saves[task].pc = "idle"
    /\ CallSave(task, requests[task].conversation_id, requests[task].input,
                IF \E n \in 1..Len(chunks) :
                      chunks[n].choices # <<>> /\ IsSome(Head(chunks[n].choices).finish_reason)
                THEN accumulated_events ELSE <<>>)
    /\ requests' = [requests EXCEPT ![task].pc = "saving"]
    /\ UNCHANGED <<conversations, items, stream_vars, translate_vars>>

\* the upstream stream ends: save_interaction is called with the request's
\* input and the buffer (main.rs 171, 205-206)
StreamEnds(task) ==
    /\ UNCHANGED concurrent_vars
    /\ requests[task].pc = "streaming"
    /\ saves[task].pc = "idle"
    /\ CallSave(task, requests[task].conversation_id, requests[task].input,
                accumulated_events)
    /\ requests' = [requests EXCEPT ![task].pc = "saving"]
    /\ UNCHANGED <<conversations, items, stream_vars, translate_vars>>

\* the client disconnects while the handler or the stream is suspended: the
\* future is dropped where it stands, a running save_interaction with it
Disconnect(task) ==
    /\ UNCHANGED concurrent_vars
    /\ InFlight(task)
    /\ requests' = [requests EXCEPT ![task].pc = "dropped"]
    /\ saves' = IF requests[task].pc = "saving"
                THEN [saves EXCEPT ![task].pc = "cancelled"]
                ELSE saves
    /\ UNCHANGED <<conversations, items, save_log, stream_vars, translate_vars>>

NextRequest ==
    \/ \E task \in Tasks : Receive(task)
    \/ \E task \in Tasks : LoadContext(task)
    \/ \E task \in Tasks : LoadContextFails(task)
    \/ \E task \in Tasks : UpstreamFails(task)
    \/ \E task \in Tasks : UpstreamRejects(task)
    \/ \E task \in Tasks : ErrorText(task)
    \/ \E task \in Tasks : UpstreamAccepts(task)
    \/ \E task \in Tasks : StreamChunk(task)
    \/ \E task \in Tasks : StreamFails(task)
    \/ \E task \in Tasks : StreamEnds(task)
    \/ \E task \in Tasks : InsertConversation(task)
    \/ \E task \in Tasks : CountItems(task)
    \/ \E task \in Tasks : InsertInput(task)
    \/ \E task \in Tasks : InsertOutput(task)
    \/ \E task \in Tasks : QueryFails(task)
    \/ \E task \in Tasks : Disconnect(task)

SpecRequest == Init /\ [][NextRequest]_vars

(***************************************************************************)
(* Two requests side by side: each task polls its own make_stream; the     *)
(* token source of Uuid::new_v4 is the one thing they share.               *)
(***************************************************************************)
\* faulty variant: every request works on the transcoder of the first task
transcoder_of_first(task) ==
    IF IsSome(streams["t1"].transcoder)
    THEN Unwrap(streams["t1"].transcoder)
    ELSE Unwrap(streams[task].transcoder)

\* let mut transcoder: a local of the task's stream (main.rs 167)
transcoder_of(task) == Unwrap(streams[task].transcoder)

\* let mut codec: a local of the task's stream (main.rs 169)
codec_of(task) == Unwrap(streams[task].codec)

\* first poll of the stream: the locals are created (main.rs 166-169)
OpenStream(task) ==
    /\ streams[task].pc = "idle"
    /\ streams' = [streams EXCEPT ![task] =
                      [IdleStream EXCEPT !.pc = "open",
                                         !.transcoder = Some(new(uuid)),
                                         !.codec = Some(new_codec)]]
    /\ uuid' = uuid + 1
    /\ UNCHANGED <<transcoder, accumulated_events, chunks, codec_vars, upstream_lines,
                   store_vars, translate_vars, handler_vars>>

\* one turn of the while loop: a buffer is read, decoded, and the events of
\* its data lines are pushed on the buffer and written to the client
\* (main.rs 171-203)
StreamRead(task) ==
    /\ streams[task].pc = "open"
    /\ Len(streams[task].reads) < MaxReads
    /\ \E chunk_bytes \in Reads :
          LET d == decode(codec_of(task), chunk_bytes)
              run == RunTranscoder(transcoder_of(task), uuid, <<>>,
                                   ChunksOfDecoded(d.lines))
          IN /\ streams' = [streams EXCEPT
                              ![task].codec = Some(d.self),
                              ![task].transcoder = Some(run.self),
                              ![task].accumulated_events = @ \o run.events,
                              ![task].sse = @ \o run.events,
                              ![task].reads = Append(@, chunk_bytes)]
             /\ uuid' = run.uuid
    /\ UNCHANGED <<transcoder, accumulated_events, chunks, codec_vars, upstream_lines,
                   store_vars, translate_vars, handler_vars>>

NextConcurrent ==
    \/ \E task \in Tasks : OpenStream(task)
    \/ \E task \in Tasks : StreamRead(task)

SpecConcurrent == Init /\ [][NextConcurrent]_vars

(***************************************************************************)
(* Vocabulary of the properties                                            *)
(***************************************************************************)
KCreated == "response.created"
KItemAdded == "response.output_item.added"
KPartAdded == "response.content_part.added"
KTextDelta == "response.output_text.delta"
KArgsDelta == "response.function_call_arguments.delta"
KPartDone == "response.content_part.done"
KItemDone == "response.output_item.done"

\* the events of the request, in emission order
E == accumulated_events

\* the item id an event refers to (not defined for response.created)
RefItem(e) == IF e.type \in {KItemAdded, KItemDone} THEN e.item.id ELSE e.item_id

\* the (item id, output index, content index) of a content-part event
PartOf(e) == <<e.item_id, e.output_index, e.content_index>>

HasChoice(chunk) == chunk.choices # <<>>
HasFinish(chunk) == HasChoice(chunk) /\ IsSome(Head(chunk.choices).finish_reason)

\* C1: the k-th event of the request (k from 0) carries sequence number k.
SeqNumbersCountEvents ==
    \A k \in 1..Len(E) : E[k].sequence_number = Some(k - 1)

\* C2: every event other than response.created that refers to an item
\* carries a non-empty id that an earlier output_item.added introduced.
ItemIdsIntroduced ==
    \A j \in 1..Len(E) :
        E[j].type \notin {KCreated, KItemAdded} =>
            /\ RefItem(E[j]) # EmptyId
            /\ \E i \in 1..(j - 1) :
                  E[i].type = KItemAdded /\ E[i].item.id = RefItem(E[j])

\* the order grammar of one item:
\*   added [part.added text.delta+ part.done]? args.delta* done
OrderStep(q, kind) ==
    CASE q = "start" /\ kind = KItemAdded -> "added"
      [] q = "added" /\ kind = KPartAdded -> "part"
      [] q = "part" /\ kind = KTextDelta -> "text"
      [] q = "text" /\ kind = KTextDelta -> "text"
      [] q = "text" /\ kind = KPartDone -> "args"
      [] q \in {"added", "args"} /\ kind = KArgsDelta -> "args"
      [] q \in {"added", "args"} /\ kind = KItemDone -> "done"
      [] OTHER -> "reject"

RECURSIVE OrderRun(_, _)
OrderRun(q, evs) ==
    IF evs = <<>> THEN q ELSE OrderRun(OrderStep(q, Head(evs).type), Tail(evs))

ItemIdsSeen == {RefItem(E[j]) : j \in {i \in 1..Len(E) : E[i].type # KCreated}}

EventsOfItem(id) == SelectSeq(E, LAMBDA e : e.type # KCreated /\ RefItem(e) = id)

\* C3: the events that refer to one item id form a prefix of the order
\* grammar of an item.
ItemEventOrder ==
    \A id \in ItemIdsSeen : OrderRun("start", EventsOfItem(id)) # "reject"

\* C4: every output_text.delta is preceded by a content_part.added of the
\* same (item id, output index, content index), with no content_part.done of
\* that tuple in between.
TextDeltaInsideOpenPart ==
    \A j \in 1..Len(E) :
        E[j].type = KTextDelta =>
            \E i \in 1..(j - 1) :
                /\ E[i].type = KPartAdded
                /\ PartOf(E[i]) = PartOf(E[j])
                /\ \A k \in (i + 1)..(j - 1) :
                      ~(E[k].type = KPartDone /\ PartOf(E[k]) = PartOf(E[j]))

\* C5: every content_part.done is preceded by a content_part.added of the
\* same (item id, content index), and between the two the only events of
\* that part are output_text.delta events.
PartDoneClosesItsPart ==
    \A j \in 1..Len(E) :
        E[j].type = KPartDone =>
            \E i \in 1..(j - 1) :
                /\ E[i].type = KPartAdded
                /\ E[i].item_id = E[j].item_id
                /\ E[i].content_index = E[j].content_index
                /\ \A k \in (i + 1)..(j - 1) :
                      (/\ E[k].type \in {KPartAdded, KTextDelta, KPartDone}
                       /\ E[k].item_id = E[j].item_id
                       /\ E[k].content_index = E[j].content_index)
                      => E[k].type = KTextDelta

\* C6: when output_item.done is emitted for an item that had a
\* content_part.added, a content_part.done of the same item and content
\* index lies between the two.
PartDoneBeforeItemDone ==
    \A j \in 1..Len(E) :
        E[j].type = KItemDone =>
            \A i \in 1..(j - 1) :
                (E[i].type = KPartAdded /\ E[i].item_id = E[j].item.id) =>
                    \E k \in (i + 1)..(j - 1) :
                        /\ E[k].type = KPartDone
                        /\ E[k].item_id = E[i].item_id
                        /\ E[k].content_index = E[i].content_index

\* C6 witness: an item with a content part has been closed by output_item.done.
ItemWithPartIsDone ==
    \E j \in 1..Len(E) :
        /\ E[j].type = KItemDone
        /\ \E i \in 1..(j - 1) :
              E[i].type = KPartAdded /\ E[i].item_id = E[j].item.id

DonesOf(id) == {j \in 1..Len(E) : E[j].type = KItemDone /\ E[j].item.id = id}

\* C7: once a chunk with a finish reason has been processed, every item
\* added so far has exactly one output_item.done, after its
\* output_item.added; and an output_item.done is never emitted for an id
\* without an open item.
OneDonePerItem ==
    /\ (chunks # <<>> /\ HasFinish(chunks[Len(chunks)])) =>
          \A i \in 1..Len(E) :
              E[i].type = KItemAdded =>
                  /\ Cardinality(DonesOf(E[i].item.id)) = 1
                  /\ \A j \in DonesOf(E[i].item.id) : i < j
    /\ \A j \in 1..Len(E) :
          E[j].type = KItemDone =>
              /\ \E i \in 1..(j - 1) :
                    E[i].type = KItemAdded /\ E[i].item.id = E[j].item.id
              /\ \A k \in 1..(j - 1) :
                    ~(E[k].type = KItemDone /\ E[k].item.id = E[j].item.id)

CreatedCount == Cardinality({k \in 1..Len(E) : E[k].type = KCreated})

ChunksWithChoice == {n \in 1..Len(chunks) : HasChoice(chunks[n])}

\* response.created is the first event, emitted once, as soon as a chunk
\* with a choice has been processed and not before
CreatedOnceAndFirst ==
    /\ ChunksWithChoice = {} => (E = <<>> /\ transcoder.state = "Init")
    /\ ChunksWithChoice # {} =>
          /\ transcoder.state = "Streaming"
          /\ CreatedCount = 1
          /\ E[1].type = KCreated

\* C8: response.created is emitted exactly once, while the first chunk with
\* a choice is processed, before every other event; and the lifecycle state
\* never goes back from Streaming to Init.
CreatedOnceNeverReset ==
    /\ []CreatedOnceAndFirst
    /\ [][transcoder.state = "Streaming" => transcoder'.state = "Streaming"]_vars

\* C8 witness: chunks were processed after a finish chunk, the machine is
\* still streaming.
StreamingAfterFinish ==
    /\ Len(chunks) >= 3
    /\ HasFinish(chunks[1])
    /\ HasChoice(chunks[2])
    /\ ~HasChoice(chunks[3])
    /\ transcoder.state = "Streaming"

NoToolCalls(choice) == choice.delta.tool_calls \in {None, Some(<<>>)}
NoContent(choice) == choice.delta.content \in {None, Some("")}

\* a simple text turn: an opening chunk without content, n >= 1 chunks with
\* non-empty content, a closing chunk with finish reason stop
IsTextTurn(cs) ==
    /\ Len(cs) >= 3
    /\ \A n \in 1..Len(cs) : Len(cs[n].choices) = 1 /\ NoToolCalls(cs[n].choices[1])
    /\ NoContent(cs[1].choices[1])
    /\ cs[1].choices[1].finish_reason = None
    /\ \A n \in 2..(Len(cs) - 1) :
          /\ ~NoContent(cs[n].choices[1])
          /\ cs[n].choices[1].finish_reason = None
    /\ NoContent(cs[Len(cs)].choices[1])
    /\ cs[Len(cs)].choices[1].finish_reason = Some("stop")

\* C10: a simple text turn with contents c1..cn emits exactly
\* response.created, output_item.added (message), content_part.added,
\* n output_text.delta with c1..cn in order, content_part.done,
\* output_item.done (completed).
TextTurnEvents ==
    IsTextTurn(chunks) =>
        LET n == Len(chunks) - 2
        IN /\ Len(E) = n + 5
           /\ E[1].type = KCreated
           /\ E[2].type = KItemAdded /\ E[2].item.type = "message"
           /\ E[3].type = KPartAdded
           /\ \A i \in 1..n :
                 /\ E[3 + i].type = KTextDelta
                 /\ E[3 + i].delta = Unwrap(chunks[i + 1].choices[1].delta.content)
           /\ E[n + 4].type = KPartDone
           /\ E[n + 5].type = KItemDone /\ E[n + 5].item.status = "completed"

\* C10 witness: a text turn with two different deltas has been processed.
TextTurnOfTwoDeltas ==
    /\ IsTextTurn(chunks)
    /\ Len(chunks) = 4
    /\ chunks[2].choices[1].delta.content # chunks[3].choices[1].delta.content

\* a tool-call turn: a chunk that opens a call (no non-empty content),
\* chunks with one arguments fragment each, the closing chunk
IsToolTurn(cs) ==
    /\ Len(cs) >= 2
    /\ \A n \in 1..Len(cs) : Len(cs[n].choices) = 1
    /\ NoContent(cs[1].choices[1])
    /\ cs[1].choices[1].finish_reason = None
    /\ cs[1].choices[1].delta.tool_calls \in {Some(<<ToolCallOpen>>), Some(<<ToolCallOther>>)}
    /\ \A n \in 2..(Len(cs) - 1) :
          /\ cs[n].choices[1].delta.content = None
          /\ cs[n].choices[1].finish_reason = None
          /\ \E a \in {"", "x", "y"} :
                cs[n].choices[1].delta.tool_calls = Some(<<ArgsFragment(a)>>)
    /\ cs[Len(cs)].choices[1] = LegacyChoice(LegacyDelta(None, None), Some("tool_calls"))

\* the non-empty arguments strings of the fragments of a tool-call turn
RECURSIVE TurnArguments(_)
TurnArguments(cs) ==
    IF cs = <<>>
    THEN <<>>
    ELSE LET a == Unwrap(Unwrap(Head(cs).choices[1].delta.tool_calls[1][1].function).arguments)
         IN (IF a = "" THEN <<>> ELSE <<a>>) \o TurnArguments(Tail(cs))

\* C11: a tool-call turn opens no message item and emits response.created,
\* one output_item.added (function_call, with the call id and the function
\* name), one function_call_arguments.delta per non-empty arguments string,
\* in order, and one output_item.done (function_call, completed); it emits
\* no content-part event.
ToolTurnEvents ==
    IsToolTurn(chunks) =>
        LET open == chunks[1].choices[1].delta.tool_calls[1][1]
            args == TurnArguments(SubSeq(chunks, 2, Len(chunks) - 1))
            n == Len(args)
        IN /\ Len(E) = n + 3
           /\ E[1].type = KCreated
           /\ E[2].type = KItemAdded
           /\ E[2].item.type = "function_call"
           /\ E[2].item.call_id = Unwrap(open.id)
           /\ E[2].item.name = Unwrap(Unwrap(open.function).name)
           /\ \A i \in 1..n :
                 /\ E[2 + i].type = KArgsDelta
                 /\ E[2 + i].delta = args[i]
                 /\ E[2 + i].item_id = E[2].item.id
           /\ E[n + 3].type = KItemDone
           /\ E[n + 3].item = DoneItem(E[2].item.id, "function_call", "completed")

\* C11 witness: a tool-call turn with two different fragments and an empty
\* one has been processed.
ToolTurnOfTwoFragments ==
    /\ IsToolTurn(chunks)
    /\ Len(chunks) = 5
    /\ TurnArguments(SubSeq(chunks, 2, 4)) \in {<<"x", "y">>, <<"y", "x">>}

\* the status the spec assigns to a finish reason
StatusOfReason(r) ==
    IF r \in {"length", "content_filter"} THEN "incomplete" ELSE "completed"

\* the finish reasons of the chunks fed, in order
RECURSIVE ReasonsFed(_)
ReasonsFed(cs) ==
    IF cs = <<>>
    THEN <<>>
    ELSE (IF HasFinish(Head(cs))
          THEN <<Unwrap(Head(Head(cs).choices).finish_reason)>>
          ELSE <<>>) \o ReasonsFed(Tail(cs))

DoneEvents == SelectSeq(E, LAMBDA e : e.type = KItemDone)

\* C12: each chunk with a finish reason emits one output_item.done, whose
\* status is completed for stop, incomplete for length and content_filter,
\* completed for any other reason.
DoneStatusFollowsReason ==
    LET reasons == ReasonsFed(chunks)
    IN /\ Len(DoneEvents) = Len(reasons)
       /\ \A k \in 1..Len(reasons) :
             DoneEvents[k].item.status = StatusOfReason(reasons[k])

\* C12 witness: a content_filter chunk and a chunk with a reason the code
\* does not name have been processed.
FilterAndOtherReasonDone ==
    /\ Len(chunks) >= 2
    /\ ReasonsFed(chunks) = <<"content_filter", "function_call">>

RECURSIVE Flatten(_)
Flatten(ss) == IF ss = <<>> THEN <<>> ELSE Head(ss) \o Flatten(Tail(ss))

\* all bytes read from the upstream so far
InputBytes == Flatten(byte_chunks)

\* C13: the lines returned by the decode calls so far, and the retained
\* tail, are those of one decode call of a fresh codec on all the bytes.
StreamEquivalent ==
    LET whole == decode(new_codec, InputBytes)
    IN /\ decoded_lines = whole.lines
       /\ codec.buffer = whole.self.buffer

\* C13 witness: a line was split over three reads, with the carriage return
\* and the line feed in different reads.
LineSplitOverReads ==
    /\ Len(byte_chunks) = 3
    /\ byte_chunks[1] # <<>> /\ byte_chunks[1][Len(byte_chunks[1])] = 97
    /\ byte_chunks[2] = <<97, CR>>
    /\ byte_chunks[3] # <<>> /\ byte_chunks[3][1] = LF
    /\ decoded_lines # <<>>

\* the bytes without the consumed delimiters: every line feed, and a
\* carriage return directly before a line feed
RemoveDelimiters(bytes) ==
    LET keep(i) == /\ bytes[i] # LF
                   /\ ~(bytes[i] = CR /\ i < Len(bytes) /\ bytes[i + 1] = LF)
        F[i \in 0..Len(bytes)] ==
            IF i = 0 THEN <<>>
            ELSE IF keep(i) THEN Append(F[i - 1], bytes[i]) ELSE F[i - 1]
    IN F[Len(bytes)]

\* the bytes without the complete lines (line feed included) that are not
\* valid UTF-8
DropUndecodableLines(bytes) ==
    LET \* start of the line that byte i belongs to
        start(i) == IF \E j \in 1..(i - 1) : bytes[j] = LF
                    THEN 1 + CHOOSE j \in 1..(i - 1) :
                                bytes[j] = LF /\ \A k \in (j + 1)..(i - 1) : bytes[k] # LF
                    ELSE 1
        \* position of the line feed that ends the line of byte i, 0 if none
        stop(i) == IF \E j \in i..Len(bytes) : bytes[j] = LF
                   THEN CHOOSE j \in i..Len(bytes) :
                           bytes[j] = LF /\ \A k \in i..(j - 1) : bytes[k] # LF
                   ELSE 0
        dropped(i) == /\ stop(i) # 0
                      /\ \E k \in start(i)..stop(i) : bytes[k] >= 128
        F[i \in 0..Len(bytes)] ==
            IF i = 0 THEN <<>>
            ELSE IF dropped(i) THEN F[i - 1] ELSE Append(F[i - 1], bytes[i])
    IN F[Len(bytes)]

\* decode of an empty buffer returns no line and keeps the tail
EmptyReadIsNoOp ==
    (byte_chunks' = Append(byte_chunks, <<>>)) =>
        (decoded_lines' = decoded_lines /\ codec' = codec)

\* C14: the emitted lines followed by the retained tail are the input
\* bytes without the consumed delimiters: no other byte is lost or
\* duplicated.
LinesPlusTailIsInput ==
    Flatten(decoded_lines) \o codec.buffer = RemoveDelimiters(InputBytes)

\* C14 amended: the same, with the lines that are not valid UTF-8 left out
\* of the input; and decode of an empty buffer returns no line and keeps
\* the tail.
LinesPlusTailIsDecodableInput ==
    /\ [](Flatten(decoded_lines) \o codec.buffer
            = RemoveDelimiters(DropUndecodableLines(InputBytes)))
    /\ [][EmptyReadIsNoOp]_vars

\* C14 witness: a line that is not valid UTF-8 was dropped, another line was
\* emitted, and bytes are retained.
UndecodableLineDropped ==
    /\ DropUndecodableLines(InputBytes) # InputBytes
    /\ decoded_lines # <<>>
    /\ codec.buffer # <<>>

\* the complete lines of the bytes, without their line feed
RECURSIVE CompleteLines(_)
CompleteLines(bytes) ==
    LET i == FirstLf(bytes)
    IN IF i = 0 THEN <<>>
       ELSE <<SubSeq(bytes, 1, i - 1)>> \o CompleteLines(SubSeq(bytes, i + 1, Len(bytes)))

\* the line with exactly one trailing carriage return taken off
WithoutOneCr(l) ==
    IF l # <<>> /\ l[Len(l)] = CR THEN SubSeq(l, 1, Len(l) - 1) ELSE l

\* the lines with one trailing carriage return taken off each; empty and
\* undecodable lines left out
RECURSIVE ExpectedLines(_)
ExpectedLines(ls) ==
    IF ls = <<>> THEN <<>>
    ELSE LET l == WithoutOneCr(Head(ls))
         IN (IF l = <<>> \/ \E k \in 1..Len(l) : l[k] >= 128 THEN <<>> ELSE <<l>>)
            \o ExpectedLines(Tail(ls))

\* the same bytes with LF line ends: the carriage return directly before a
\* line feed is taken out
LfForm(bytes) ==
    LET F[i \in 0..Len(bytes)] ==
            IF i = 0 THEN <<>>
            ELSE IF bytes[i] = CR /\ i < Len(bytes) /\ bytes[i + 1] = LF
                 THEN F[i - 1]
                 ELSE Append(F[i - 1], bytes[i])
    IN F[Len(bytes)]

HasCrLf(bytes) == \E i \in 1..(Len(bytes) - 1) : bytes[i] = CR /\ bytes[i + 1] = LF

CrLfCount(bytes) ==
    Cardinality({i \in 1..(Len(bytes) - 1) : bytes[i] = CR /\ bytes[i + 1] = LF})

\* C15: no returned line is empty; exactly one trailing carriage return is
\* taken off each line; and when the text of no line ends with a carriage
\* return, the lines are those that the same input with LF line ends gives.
CrLfLikeLf ==
    /\ \A i \in 1..Len(decoded_lines) : decoded_lines[i] # <<>>
    /\ decoded_lines = ExpectedLines(CompleteLines(InputBytes))
    /\ ~HasCrLf(LfForm(InputBytes)) =>
          decoded_lines = decode(new_codec, LfForm(InputBytes)).lines

\* C15 witness: two CR LF lines were read, one of them empty, and one line
\* was returned.
CrLfLinesRead ==
    /\ CrLfCount(InputBytes) = 2
    /\ ~HasCrLf(LfForm(InputBytes))
    /\ Len(decoded_lines) = 1

IsDataLine(line) == line.prefix = "data: "
IsDoneLine(line) == IsDataLine(line) /\ line.rest = <<"[DONE]">>
IsChunkLine(line) == IsDataLine(line) /\ line.rest[1] = "chunk"
IsMalformedLine(line) == IsDataLine(line) /\ ~IsDoneLine(line) /\ ~IsChunkLine(line)

\* the chunks that the data lines of ls carry, in order
RECURSIVE ChunksOfLines(_)
ChunksOfLines(ls) ==
    IF ls = <<>> THEN <<>>
    ELSE (IF IsChunkLine(Head(ls)) THEN <<Head(ls).rest[2]>> ELSE <<>>)
         \o ChunksOfLines(Tail(ls))

\* the lines before the first [DONE] line (all lines if there is none)
LinesBeforeDone(ls) ==
    IF \E i \in 1..Len(ls) : IsDoneLine(ls[i])
    THEN SubSeq(ls, 1, (CHOOSE i \in 1..Len(ls) :
                          IsDoneLine(ls[i]) /\ \A j \in 1..(i - 1) : ~IsDoneLine(ls[j])) - 1)
    ELSE ls

\* C16: a [DONE] payload emits nothing and ends the stream: the transcoder
\* has been given, and the event buffer holds the events of, the chunks of
\* the lines before the first [DONE] only.
DoneEndsStream ==
    LET cs == ChunksOfLines(LinesBeforeDone(upstream_lines))
    IN /\ chunks = cs
       /\ accumulated_events = RunTranscoder(new(0), 1, <<>>, cs).events

WithoutMalformed(ls) == SelectSeq(ls, LAMBDA l : ~IsMalformedLine(l))

\* a step that handles a malformed data line changes nothing of the request
MalformedLineIsNoOp ==
    (/\ upstream_lines' # upstream_lines
     /\ IsMalformedLine(upstream_lines'[Len(upstream_lines')]))
    => UNCHANGED request_vars

\* C17: a malformed data line emits nothing and leaves the transcoder as it
\* is, and the transcoder state and the events are those of the stream
\* without its malformed lines.
MalformedLineSkipped ==
    /\ [](LET r == RunTranscoder(new(0), 1, <<>>,
                      ChunksOfLines(WithoutMalformed(upstream_lines)))
          IN /\ transcoder = r.self
             /\ accumulated_events = r.events)
    /\ [][MalformedLineIsNoOp]_vars

\* C17 witness: a malformed line came between two chunk lines, while an
\* item was open, and the second chunk was processed.
MalformedBetweenChunks ==
    /\ Len(upstream_lines) >= 3
    /\ IsChunkLine(upstream_lines[1])
    /\ IsMalformedLine(upstream_lines[2])
    /\ IsChunkLine(upstream_lines[3])
    /\ Len(chunks) >= 2
    /\ Len(accumulated_events) >= 5

(***************************************************************************)
(* The store: what load_context returns after save_interaction calls       *)
(***************************************************************************)
\* the calls made so far on a conversation
SavesOn(conversation_id) ==
    {task \in Tasks : /\ saves[task].pc # "idle"
                      /\ saves[task].conversation_id = conversation_id}

ItemsOf(outputs) == [i \in 1..Len(outputs) |-> outputs[i].item]

\* per call of log on the conversation, in call order: the call's input
\* items followed by its reconstructed output items
RECURSIVE ExpectedContext(_, _)
ExpectedContext(log, conversation_id) ==
    IF log = <<>> THEN <<>>
    ELSE LET save == saves[Head(log)]
         IN (IF save.conversation_id = conversation_id
             THEN save.input \o ItemsOf(Reconstruct(save.output_events))
             ELSE <<>>)
            \o ExpectedContext(Tail(log), conversation_id)

\* C18: when every save_interaction call made on a conversation has returned
\* Ok and none of them overlapped another call on that conversation,
\* load_context returns exactly the concatenation, in call order, of each
\* call's input items followed by that call's reconstructed output items.
SavedTurnsLoadInCallOrder ==
    \A conversation_id \in ConversationIds :
        (\A task \in SavesOn(conversation_id) :
            saves[task].pc = "ok" /\ ~saves[task].overlapped)
        => load_context(items, conversation_id)
             = {ExpectedContext(save_log, conversation_id)}

\* two calls on one conversation, one after the other, both returned Ok; the
\* first wrote two inputs and two outputs
TwoTurnsSavedInTurn ==
    /\ SavesOn(<<"conv", 1>>) = Tasks
    /\ \A task \in Tasks : saves[task].pc = "ok" /\ ~saves[task].overlapped
    /\ saves[save_log[1]].input = <<ToolOutput, UserMessage>>
    /\ saves[save_log[1]].output_events = MixedTurnBuffer
    /\ Len(ExpectedContext(save_log, <<"conv", 1>>)) > 4

\* C19: in every store state, also when two calls overlap on one
\* conversation, the sequence_index values of the conversation's rows are
\* exactly 0..n-1, each used once.
SequenceIndexesDense ==
    \A conversation_id \in ConversationIds :
        LET rows == RowsOf(items, conversation_id)
        IN /\ {items[i].sequence_index : i \in rows} = 0..(Cardinality(rows) - 1)
           /\ \A i, j \in rows :
                 items[i].sequence_index = items[j].sequence_index => i = j

\* the rows a call has written
RowsBy(task) == {i \in 1..Len(items) : items[i].task = task}

\* C20: a turn is persisted atomically: a call that returned an error has
\* left none of its rows in the store, and the rows of a call that returned
\* are all there or all absent.
TurnPersistedAtomically ==
    \A task \in Tasks :
        LET turn_rows == Len(saves[task].input)
                         + Len(Reconstruct(saves[task].output_events))
        IN /\ saves[task].pc = "err" => RowsBy(task) = {}
           /\ saves[task].pc \in {"ok", "err"}
                 => Cardinality(RowsBy(task)) \in {0, turn_rows}

\* C30: every function_call_arguments.delta carries the id of an item that
\* was added before it with type function_call; an arguments fragment that
\* arrives while the current item is a message, or while no item is open,
\* emits no arguments delta.
ArgsDeltaOnlyForFunctionCall ==
    \A k \in 1..Len(E) :
        E[k].type = KArgsDelta
        => \E j \in 1..(k - 1) : /\ E[j].type = KItemAdded
                                 /\ E[j].item.id = E[k].item_id
                                 /\ E[j].item.type = "function_call"

(***************************************************************************)
(* The request translator                                                  *)
(***************************************************************************)
\* the Legacy role the contract gives to an item
RoleOfItem(item) ==
    CASE item.variant = "Message" /\ item.role = "User" -> "user"
      [] item.variant = "Message" /\ item.role = "Assistant" -> "assistant"
      [] item.variant = "Message" /\ item.role = "Developer" -> "system"
      [] item.variant = "FunctionCall" -> "assistant"
      [] item.variant = "FunctionCallOutput" -> "tool"

\* C28: transform_ors_to_legacy returns one Legacy message per input item,
\* in the same order, and the role of the i-th message is the one the i-th
\* item determines.
OneMessagePerItem ==
    /\ Len(legacy_messages) = Len(full_input)
    /\ \A i \in 1..Len(full_input) :
          legacy_messages[i].role = RoleOfItem(full_input[i])

\* a developer message and a function-call output, translated in that order
DeveloperThenToolTranslated ==
    /\ Len(full_input) = 2
    /\ full_input[1].variant = "Message" /\ full_input[1].role = "Developer"
    /\ full_input[2].variant = "FunctionCallOutput"
    /\ legacy_messages[1].role = "system"
    /\ legacy_messages[2].role = "tool"

AllText(item) ==
    /\ item.variant = "Message"
    /\ \A i \in 1..Len(item.content) : item.content[i].variant = "InputText"

\* the texts of the parts, one after the other
RECURSIVE ConcatText(_)
ConcatText(content) ==
    IF content = <<>> THEN ""
    ELSE Head(content).text \o ConcatText(Tail(content))

\* C29 as stated: the content of the translation of an all-text Message is a
\* plain string equal to the concatenation of the part texts, for every list
\* of text parts.
AllTextContentIsConcatenation ==
    \A i \in 1..Len(full_input) :
        AllText(full_input[i])
        => legacy_messages[i].content
             = Some(JsonString(ConcatText(full_input[i].content)))

\* C29, amended: the content of the translation of an all-text Message is a
\* plain string equal to the concatenation of the part texts when that
\* concatenation is not empty, and is absent when it is empty.
AllTextContentIsConcatenationOrAbsent ==
    \A i \in 1..Len(full_input) :
        AllText(full_input[i])
        => legacy_messages[i].content
             = IF ConcatText(full_input[i].content) # ""
               THEN Some(JsonString(ConcatText(full_input[i].content)))
               ELSE None

\* a message of an empty and a non-empty part, and a message of empty parts
EmptyPartsTranslated ==
    /\ Len(full_input) = 2
    /\ full_input[1].variant = "Message"
    /\ full_input[1].content = <<InputText(""), InputText("a")>>
    /\ legacy_messages[1].content = Some(JsonString("a"))
    /\ full_input[2].variant = "Message"
    /\ full_input[2].content = <<InputText(""), InputText("")>>
    /\ legacy_messages[2].content = None

(***************************************************************************)
(* The request handler: what a request leaves at the client and in the     *)
(* store                                                                   *)
(***************************************************************************)
\* C21: after the client has disconnected at a suspension point of a
\* request (waiting for the upstream, writing an event, or during the store
\* write), the store holds no row of that turn.
NoRowsAfterDisconnect ==
    \A task \in Tasks : requests[task].pc = "dropped" => RowsBy(task) = {}

UpstreamFailed(task) ==
    requests[task].pc = "done" /\ requests[task].status = Some(502)

\* C22: when the upstream request fails (transport error or non-success
\* status) the client gets status 502 and no SSE event, save_interaction is
\* never called for the request, and the step that answers 502 leaves both
\* store tables as they are.
UpstreamFailureNotStored ==
    /\ [](\A task \in Tasks :
            /\ requests[task].pc = "error_text" => requests[task].sse = <<>>
            /\ UpstreamFailed(task)
                  => /\ requests[task].sse = <<>>
                     /\ saves[task].pc = "idle"
                     /\ \A i \in 1..Len(save_log) : save_log[i] # task
                     /\ RowsBy(task) = {})
    /\ [][\A task \in Tasks :
            (requests[task].pc \in {"send", "error_text"} /\ requests'[task].pc = "done")
            => /\ requests'[task].status = Some(502)
               /\ UNCHANGED store_vars]_vars

\* a request with a previous_response_id was answered 502 while the store
\* holds the rows of another turn
RejectedWithStoredHistory ==
    \E task \in Tasks :
        /\ UpstreamFailed(task)
        /\ IsSome(requests[task].previous_response_id)
        /\ requests[task].history # <<>>
        /\ Len(items) > 1

\* C23: once the history of a request with previous_response_id = C is
\* loaded, the Legacy messages sent upstream are the translation of the
\* items stored for C in stored order followed by the translation of the
\* request's own input items in order.
HistoryThenInputSent ==
    \A task \in Tasks :
        (requests[task].pc = "send" /\ IsSome(requests[task].previous_response_id))
        => /\ requests[task].history
                \in load_context(items, Unwrap(requests[task].previous_response_id))
           /\ legacy_messages
                = transform_ors_to_legacy(requests[task].history)
                  \o transform_ors_to_legacy(requests[task].input)

\* one stored user + assistant turn: the messages sent are the turn-1 user,
\* the turn-1 reconstructed assistant and the turn-2 user message
SecondTurnSendsThree ==
    \E task \in Tasks :
        /\ requests[task].pc = "send"
        /\ requests[task].history
             = <<UserMessage, Message("Assistant", <<InputText("ab")>>)>>
        /\ requests[task].input = <<UserMessage>>
        /\ legacy_messages
             = <<LegacyMessage("user", Some(JsonString("hi")), None, None),
                 LegacyMessage("assistant", Some(JsonString("ab")), None, None),
                 LegacyMessage("user", Some(JsonString("hi")), None, None)>>

\* the rows a call has written, in insertion order
RowsWrittenBy(task) == SelectSeq(items, LAMBDA row : row.task = task)

AddedEvents(events) == SelectSeq(events, LAMBDA e : e.type = KItemAdded)

SavedCleanly(task) == requests[task].pc = "saving" /\ saves[task].pc = "ok"

\* C24: save_interaction is called with the request's own input items only:
\* a cleanly ended request with k input items and m output_item.added events
\* has added exactly k + m rows to its conversation, the first k of them its
\* input items, and no item of the loaded history is among them again.
OwnInputSaved ==
    \A task \in Tasks :
        /\ requests[task].pc = "saving" => saves[task].input = requests[task].input
        /\ SavedCleanly(task)
              => LET rows == RowsWrittenBy(task)
                     k == Len(requests[task].input)
                     m == Len(AddedEvents(requests[task].sse))
                 IN /\ Len(rows) = k + m
                    /\ \A i \in 1..Len(rows) :
                          rows[i].conversation_id = requests[task].conversation_id
                    /\ \A i \in 1..k :
                          rows[i].payload = item_to_string(requests[task].input[i])

\* a second turn on a conversation with stored history was saved
SecondTurnSaved ==
    \E task \in Tasks :
        /\ SavedCleanly(task)
        /\ Len(requests[task].history) > 1
        /\ Len(AddedEvents(requests[task].sse)) > 1
        /\ Len(RowsWrittenBy(task)) < Len(items)

\* the deltas of the output_text.delta events of events that carry id, one
\* after the other
RECURSIVE TextOf(_, _)
TextOf(events, id) ==
    IF events = <<>> THEN ""
    ELSE (IF Head(events).type = KTextDelta /\ Head(events).item_id = id
          THEN Head(events).delta ELSE "")
         \o TextOf(Tail(events), id)

EndedWithoutFinish(task) ==
    /\ requests[task].pc = "saving"
    /\ saves[task].output_events = accumulated_events
    /\ chunks # <<>>
    /\ \A n \in 1..Len(chunks) : ~HasFinish(chunks[n])

\* C26: when the upstream stream ends cleanly, also without a finish reason
\* while an item is open, the step emits no event (no synthetic
\* content_part.done or output_item.done) and calls save_interaction, once,
\* with the buffer as it stands; the text accumulated so far is what is
\* stored.
CleanEndSavesPartialBuffer ==
    /\ [][\A task \in Tasks :
            (requests[task].pc = "streaming" /\ requests'[task].pc = "saving")
            => /\ requests'[task].sse = requests[task].sse
               /\ accumulated_events' = accumulated_events
               /\ saves[task].pc = "idle"
               /\ saves'[task].pc = "insert_conversation"
               /\ saves'[task].output_events = accumulated_events
               /\ save_log' = Append(save_log, task)]_vars
    /\ [](\A task \in Tasks :
            /\ Cardinality({i \in 1..Len(save_log) : save_log[i] = task}) <= 1
            /\ (EndedWithoutFinish(task) /\ saves[task].pc = "ok")
                  => \A i \in 1..Len(AddedEvents(accumulated_events)) :
                        item_from_str(RowsWrittenBy(task)[Len(requests[task].input) + i].payload)
                          = Some(Message("Assistant",
                                   <<InputText(TextOf(accumulated_events,
                                        AddedEvents(accumulated_events)[i].item.id))>>)))

\* a stream of one content chunk and no finish reason was saved: no done
\* event was sent and the text "a" is stored
PartialTextStored ==
    \E task \in Tasks :
        /\ EndedWithoutFinish(task)
        /\ saves[task].pc = "ok"
        /\ \A k \in 1..Len(requests[task].sse) :
              requests[task].sse[k].type \notin {KPartDone, KItemDone}
        /\ \E i \in 1..Len(items) :
              /\ items[i].task = task
              /\ items[i].payload.type = "message"
              /\ items[i].payload.content = <<[type |-> "input_text", text |-> "a"]>>

CreatedIds(events) ==
    {events[k].id : k \in {i \in 1..Len(events) : events[i].type = KCreated}}

\* C27: for a request without previous_response_id that ended cleanly and
\* was saved, the id under which the turn is saved is the id announced in
\* response.created; a following request with that id as
\* previous_response_id loads the saved turn as its history.
SavedUnderAnnouncedId ==
    \A task \in Tasks :
        (SavedCleanly(task) /\ requests[task].previous_response_id = None
                            /\ CreatedIds(requests[task].sse) # {})
        => /\ CreatedIds(requests[task].sse) = {saves[task].conversation_id}
           /\ \A next \in Tasks :
                 (/\ requests[next].pc = "send"
                  /\ IsSome(requests[next].previous_response_id)
                  /\ Unwrap(requests[next].previous_response_id)
                       \in CreatedIds(requests[task].sse))
                 => requests[next].history
                      = requests[task].input
                        \o ItemsOf(Reconstruct(saves[task].output_events))

(***************************************************************************)
(* The fields of the transcoder                                            *)
(***************************************************************************)
ItemCleared(self) ==
    /\ self.current_item_id = None
    /\ self.current_item_type = None
    /\ self.current_content_index = None
    /\ ~self.has_emitted_content_start

\* C34: after every process call the current item id is set exactly when
\* the current item kind is set, the content-part-open flag is set exactly
\* when the current content index is set, and the open flag implies a
\* current item; after a chunk with a finish reason the item id, kind,
\* content index and open flag are all cleared; a chunk with an empty
\* choices list emits nothing and changes no field.
TranscoderFieldsConsistent ==
    /\ [](/\ IsSome(transcoder.current_item_id) <=> IsSome(transcoder.current_item_type)
          /\ transcoder.has_emitted_content_start
                <=> IsSome(transcoder.current_content_index)
          /\ transcoder.has_emitted_content_start => IsSome(transcoder.current_item_id)
          /\ (chunks # <<>> /\ HasFinish(chunks[Len(chunks)])) => ItemCleared(transcoder))
    /\ [][(Len(chunks') = Len(chunks) + 1 /\ ~HasChoice(chunks'[Len(chunks')]))
          => /\ transcoder' = transcoder
             /\ accumulated_events' = accumulated_events
             /\ uuid' = uuid]_vars

\* an open content part, then a chunk without choices, then a chunk whose
\* finish reason closed the part and the item
OpenPartThenEmptyThenFinish ==
    /\ Len(chunks) = 3
    /\ ~HasChoice(chunks[2])
    /\ HasFinish(chunks[3])
    /\ \E k \in 1..Len(E) : E[k].type = KPartDone
    /\ ItemCleared(transcoder)

(***************************************************************************)
(* Requests side by side                                                   *)
(***************************************************************************)
\* a request alone: a new codec and a new transcoder are fed the reads
RECURSIVE RunAlone(_, _, _, _, _)
RunAlone(alone_codec, alone_transcoder, token, events, reads) ==
    IF reads = <<>> THEN events
    ELSE LET d == decode(alone_codec, Head(reads))
             run == RunTranscoder(alone_transcoder, token, <<>>, ChunksOfDecoded(d.lines))
         IN RunAlone(d.self, run.self, run.uuid, events \o run.events, Tail(reads))

\* the tokens of the generated ids that occur in events
TokensOf(events) ==
    {events[k].id[2] : k \in {i \in 1..Len(events) : events[i].type = KCreated}}
    \cup {RefItem(events[k])[2] :
            k \in {i \in 1..Len(events) :
                     events[i].type # KCreated /\ RefItem(events[i]) # EmptyId}}

\* events with every generated id renamed to the rank of its token among
\* the tokens of the request: two runs that differ only in the values drawn
\* from Uuid::new_v4 have the same renamed events
Renamed(events) ==
    LET Rank(n) == Cardinality({m \in TokensOf(events) : m < n})
        NewId(id) == IF id = EmptyId THEN id ELSE <<id[1], Rank(id[2])>>
    IN [k \in 1..Len(events) |->
          LET e == events[k]
          IN IF e.type = KCreated THEN [e EXCEPT !.id = NewId(@)]
             ELSE IF e.type \in {KItemAdded, KItemDone}
                  THEN [e EXCEPT !.item.id = NewId(@)]
                  ELSE [e EXCEPT !.item_id = NewId(@)]]

\* C33: for two requests whose reads are processed in any interleaving, the
\* events of each request (kinds, item references up to the values of the
\* generated ids, sequence numbers) are the events the request produces
\* when it runs alone, and they reach its client in emission order.
StateIsPerRequest ==
    \A task \in Tasks :
        streams[task].pc = "open"
        => /\ Renamed(streams[task].accumulated_events)
                = Renamed(RunAlone(new_codec, new(0), 1, <<>>, streams[task].reads))
           /\ streams[task].sse = streams[task].accumulated_events

\* both requests got the first half of a data line and then the second,
\* the reads of one between the reads of the other, and both sent events
SplitLinesInterleaved ==
    /\ \A task \in Tasks :
          /\ Len(streams[task].reads) = 2
          /\ Len(streams[task].reads[1]) = 20
          /\ Len(streams[task].sse) > 3
    /\ streams["t1"].sse[2].item.id[2] > streams["t2"].sse[2].item.id[2]
    /\ streams["t1"].sse[1].id[2] < streams["t2"].sse[1].id[2]

(***************************************************************************)
(* The end of a turn: the save and the next request                        *)
(***************************************************************************)
\* C31: when a turn ended cleanly and its save succeeded, a request on the
\* same conversation that started after the response body of that turn had
\* closed has loaded every item of the turn, in order, never a part of it.
NextTurnReadsWholeTurn ==
    \A task \in Tasks, next \in Tasks :
        (/\ task # next
         /\ SavedCleanly(task)
         /\ requests[next].pc = "send"
         /\ IsSome(requests[next].previous_response_id)
         /\ Unwrap(requests[next].previous_response_id) = requests[task].conversation_id)
        => requests[next].history
             = requests[task].history
               \o requests[task].input
               \o ItemsOf(Reconstruct(saves[task].output_events))

\* a turn of two input items and two output items was saved and the next
\* request on the conversation has loaded the four
NextTurnLoadedFour ==
    \E task \in Tasks, next \in Tasks :
        /\ task # next
        /\ SavedCleanly(task)
        /\ requests[task].input = <<ToolOutput, UserMessage>>
        /\ requests[next].pc = "send"
        /\ requests[next].previous_response_id = Some(requests[task].conversation_id)
        /\ Len(requests[next].history) = 4
        /\ requests[next].history[4] = Message("Assistant", <<InputText("")>>)

\* C32: a failure of save_interaction does not affect the client response:
\* all events were delivered before the save started, the events the client
\* has are the same whether the save succeeds or fails, and no step of the
\* save changes the status, the events or delivers an error.
SaveFailureUnseenByClient ==
    /\ [](\A task \in Tasks :
            requests[task].pc = "saving"
            => /\ requests[task].sse = saves[task].output_events
               /\ requests[task].status = Some(200)
               /\ ~requests[task].stream_error)
    /\ [][\A task \in Tasks :
            requests[task].pc = "saving"
            => /\ requests'[task].sse = requests[task].sse
               /\ requests'[task].status = requests[task].status
               /\ requests'[task].stream_error = requests[task].stream_error]_vars

\* the save of a turn failed after its first insert; the client has status
\* 200 and the events of the turn
SaveFailedAfterEvents ==
    \E task \in Tasks :
        /\ requests[task].pc = "saving"
        /\ saves[task].pc = "err"
        /\ RowsBy(task) # {}
        /\ Len(requests[task].sse) > 3
        /\ requests[task].status = Some(200)

====
